---------------------------- MODULE Spec2Model ----------------------------
(***************************************************************************)
(* Model of the compiled relational nodes of bigframes                     *)
(* (bigframes/core/compile/compiled.py): UnorderedIR and OrderedIR, their  *)
(* builders, the transformations that derive one node from another and the *)
(* emission of a node as a relation.                                       *)
(*                                                                         *)
(* A backing table is a finite sequence of rows; an ibis value expression  *)
(* is a small term evaluated per row; a node is a record of the fields the *)
(* Python object holds.  Every transformation is an operator from a node   *)
(* (and its arguments) to a new node or to an error, and one action of the *)
(* state machine applies it to the current node.                           *)
(***************************************************************************)
EXTENDS Integers, Sequences, FiniteSets, TLC

\* ------------------------------------------------------------------ bounds
MaxRows == 2
MaxLen == 2
MaxSteps == 2
MaxHeapSteps == 3
MaxNodes == 3
MaxAggRows == 4
MaxOrderId == 10000
\* Rows of the tables window operators are applied to.
MaxWindowRows == 3
\* Threads that call into global_session, and the calls they make in all.
MaxThreads == 2
MaxCalls == 3

\* --------------------------------------------------------------- constants
ORDER_ID_COLUMN == "bigframes_ordering_id"
PREDICATE_COLUMN == "bigframes_predicate"

\* SQL NULL, and the two SQL booleans, as members of the value domain.
Null == 0 - 1
SqlTrue == 0 + 1
SqlFalse == 0 + 0
\* Largest integer a data column holds.
MaxVal == MaxRows + MaxLen

\* ----------------------------------------------------------------- helpers
Range(s) == {s[i] : i \in DOMAIN s}

IsDistinct(s) == \A i, j \in DOMAIN s : i # j => s[i] # s[j]

RECURSIVE SeqOfSet(_)
SeqOfSet(S) == IF S = {} THEN <<>>
               ELSE LET x == CHOOSE y \in S : \A z \in S : y <= z
                    IN <<x>> \o SeqOfSet(S \ {x})

RECURSIVE SetToSeq(_)
\* The members of a set in some order.
SetToSeq(S) == IF S = {} THEN <<>>
               ELSE LET x == CHOOSE y \in S : TRUE
                    IN <<x>> \o SetToSeq(S \ {x})

RECURSIVE FlatMap(_, _)
\* Concatenation of f[s[1]], f[s[2]], ...
FlatMap(f, s) == IF s = <<>> THEN <<>> ELSE f[Head(s)] \o FlatMap(f, Tail(s))

Min2(a, b) == IF a <= b THEN a ELSE b
Max2(a, b) == IF a >= b THEN a ELSE b
SetMin(S) == CHOOSE x \in S : \A y \in S : x <= y
SetMax(S) == CHOOSE x \in S : \A y \in S : x >= y

\* ------------------------------------------------------------- expressions
\* One term shape serves the scalar expressions of bigframes.core.expression
\* (free variables are column ids) and the ibis value expressions (leaves are
\* columns of the backing table).  w is the window of an analytic term.
Term(o, a, n, args, w) == [op |-> o, a |-> a, n |-> n, args |-> args, w |-> w]
NoWindow == <<>>
Var(id) == Term("var", id, 0, <<>>, NoWindow)
Col(name) == Term("col", name, 0, <<>>, NoWindow)
Lit(v) == Term("lit", "", v, <<>>, NoWindow)
Op1(o, e) == Term(o, "", 0, <<e>>, NoWindow)
Op2(o, l, r) == Term(o, "", 0, <<l, r>>, NoWindow)

\* ex.Expression.is_const
IsConst(e) == e.op = "lit"

\* isinstance(e, ex.OpExpression)
IsOpExpression(e) == e.op \notin {"var", "lit"}

\* isinstance(e, ex.UnboundVariableExpression)
IsUnboundVariable(e) == e.op = "var"

RECURSIVE UnboundVariables(_)
\* ex.Expression.unbound_variables
UnboundVariables(e) ==
    IF e.op = "var" THEN {e.a}
    ELSE UNION {UnboundVariables(e.args[i]) : i \in DOMAIN e.args}

RECURSIVE BindVariables(_, _)
\* Substitution of terms for free variables: bindings is a function from ids
\* to terms; ids outside its domain stay free.
BindVariables(e, bindings) ==
    IF e.op = "var"
    THEN IF e.a \in DOMAIN bindings THEN bindings[e.a] ELSE e
    ELSE [e EXCEPT !.args = [i \in DOMAIN e.args |-> BindVariables(e.args[i], bindings)]]

\* op_compiler.compile_expression(expr, bindings): the ibis value of a scalar
\* expression.  Callers check UnboundVariables(e) \subseteq DOMAIN bindings.
CompileExpression(e, bindings) == BindVariables(e, bindings)

\* One ordering key of SQL, v1 strictly before v2.  BigQuery puts NULL first
\* in ascending and last in descending order; _convert_ordering_to_table_values
\* adds an is-null key in the other two cases, so that na_last alone decides
\* where NULL goes.
Precedes(asc, na_last, v1, v2) ==
    IF v1 = v2 THEN FALSE
    ELSE IF v1 = Null THEN ~na_last
    ELSE IF v2 = Null THEN na_last
    ELSE IF asc THEN v1 < v2 ELSE v1 > v2

\* ordering.DEFAULT_ORDERING_ID_LENGTH: the width of an order string, enough
\* decimal digits for a 64-bit integer.
OrderStringLength == 19

RECURSIVE Digits(_)
\* CAST(i AS STRING) of a non-negative integer: its decimal digits, the most
\* significant first, each digit standing for its character.
Digits(i) == IF i < 10 THEN <<i>> ELSE Append(Digits(i \div 10), i % 10)

\* LPAD(s, length, pad): s cut to length, or filled on the left.
LPad(s, length, pad) ==
    IF Len(s) >= length THEN SubSeq(s, 1, length)
    ELSE [k \in 1..(length - Len(s)) |-> pad] \o s

\* The cast to string alone, without the padding.
EncodeUnpadded(e) == Term("cast_string", "", 0, <<e>>, <<>>)

\* ordering.encode_order_string(order_id): the integer as a string of fixed
\* width, zeros on the left.
encode_order_string(e) == Term("encode_order_string", "", 0, <<e>>, <<>>)

RECURSIVE Eval(_, _, _, _)
\* Value of an ibis expression in row i of rows (SQL semantics: NULL
\* propagates through operators, AND is three-valued, an array index outside
\* the array is NULL).  An analytic term is evaluated over the rows of its
\* partition; tb ranks the rows that its window order leaves tied.
Eval(e, rows, i, tb) ==
    CASE e.op = "col" -> rows[i][e.a]
      [] e.op = "lit" -> e.n
      [] e.op = "neg" -> LET v == Eval(e.args[1], rows, i, tb)
                         IN IF v = Null THEN Null ELSE Max2(0, MaxVal - v)
      [] e.op = "cast_string" ->
            LET v == Eval(e.args[1], rows, i, tb)
            IN IF v = Null THEN Null ELSE Digits(v)
      [] e.op = "encode_order_string" ->
            LET v == Eval(e.args[1], rows, i, tb)
            IN IF v = Null THEN Null ELSE LPad(Digits(v), OrderStringLength, 0)
      [] e.op = "isnull" ->
            IF Eval(e.args[1], rows, i, tb) = Null THEN SqlTrue ELSE SqlFalse
      [] e.op = "lt" -> LET l == Eval(e.args[1], rows, i, tb)
                            r == Eval(e.args[2], rows, i, tb)
                        IN IF l = Null \/ r = Null THEN Null
                           ELSE IF l < r THEN SqlTrue ELSE SqlFalse
      [] e.op = "case" ->
            IF Len(e.args) = 1 THEN Eval(e.args[1], rows, i, tb)
            ELSE IF Eval(e.args[1], rows, i, tb) = SqlTrue
            THEN Eval(e.args[2], rows, i, tb)
            ELSE Eval([e EXCEPT !.args = SubSeq(e.args, 3, Len(e.args))], rows, i, tb)
      [] e.op = "pos" -> LET v == Eval(e.args[1], rows, i, tb)
                         IN IF v = Null THEN Null
                            ELSE IF v > 0 THEN SqlTrue ELSE SqlFalse
      [] e.op = "notnull" ->
            IF Eval(e.args[1], rows, i, tb) = Null THEN SqlFalse ELSE SqlTrue
      [] e.op = "and" -> LET l == Eval(e.args[1], rows, i, tb)
                             r == Eval(e.args[2], rows, i, tb)
                         IN IF l = SqlFalse \/ r = SqlFalse THEN SqlFalse
                            ELSE IF l = Null \/ r = Null THEN Null ELSE SqlTrue
      [] e.op = "index" -> LET arr == Eval(e.args[1], rows, i, tb)
                               k == Eval(e.args[2], rows, i, tb)
                           IN IF k = Null \/ k < 0 \/ k >= Len(arr) THEN Null
                              ELSE arr[k + 1]
      [] e.op = "length" -> Len(Eval(e.args[1], rows, i, tb))
      [] e.op = "row_number" ->
            LET SamePart(j) ==
                    \A g \in DOMAIN e.w.group_by :
                       Eval(e.w.group_by[g], rows, j, tb) = Eval(e.w.group_by[g], rows, i, tb)
                KeyVal(k, j) == Eval(e.w.order_by[k].e, rows, j, tb)
                Before(j1, j2) ==
                    \E k \in DOMAIN e.w.order_by :
                       /\ Precedes(e.w.order_by[k].asc, e.w.order_by[k].na_last,
                                   KeyVal(k, j1), KeyVal(k, j2))
                       /\ \A k2 \in 1..(k - 1) : KeyVal(k2, j1) = KeyVal(k2, j2)
                Tied(j1, j2) == ~Before(j1, j2) /\ ~Before(j2, j1)
            IN Cardinality({j \in DOMAIN rows :
                              /\ j # i
                              /\ SamePart(j)
                              /\ \/ Before(j, i)
                                 \/ Tied(j, i) /\ tb[j] < tb[i]})
      [] e.op \in {"count", "max"} ->
            LET SamePart(j) ==
                    \A g \in DOMAIN e.w.group_by :
                       Eval(e.w.group_by[g], rows, j, tb) = Eval(e.w.group_by[g], rows, i, tb)
                KeyVal(k, j) == Eval(e.w.order_by[k].e, rows, j, tb)
                Before(j1, j2) ==
                    \E k \in DOMAIN e.w.order_by :
                       /\ Precedes(e.w.order_by[k].asc, e.w.order_by[k].na_last,
                                   KeyVal(k, j1), KeyVal(k, j2))
                       /\ \A k2 \in 1..(k - 1) : KeyVal(k2, j1) = KeyVal(k2, j2)
                Tied(j1, j2) == ~Before(j1, j2) /\ ~Before(j2, j1)
                Rank(j) == Cardinality({j2 \in DOMAIN rows :
                                          /\ j2 # j
                                          /\ SamePart(j2)
                                          /\ \/ Before(j2, j)
                                             \/ Tied(j2, j) /\ tb[j2] < tb[j]})
                InFrame(j) ==
                    /\ SamePart(j)
                    /\ \/ Len(e.w.order_by) = 0
                       \/ /\ e.w.preceding = Null \/ Rank(j) >= Rank(i) - e.w.preceding
                          /\ e.w.following = Null \/ Rank(j) <= Rank(i) + e.w.following
                observed == {Eval(e.args[1], rows, j, tb) : j \in {j2 \in DOMAIN rows : InFrame(j2)}}
                              \ {Null}
            IN IF e.op = "count"
               THEN Cardinality({j \in DOMAIN rows :
                                   InFrame(j) /\ Eval(e.args[1], rows, j, tb) # Null})
               ELSE IF observed = {} THEN Null ELSE SetMax(observed)

\* ibis value.name(id): an expression with an output name.
Named(id, e) == [name |-> id, e |-> e]

\* ibis.window(order_by=..., group_by=...)
Window(order_by, group_by) == [order_by |-> order_by, group_by |-> group_by]

\* ibis.window(preceding=..., following=..., order_by=..., group_by=...): Null
\* stands for a bound that is None, the empty order for order_by=None.
FrameWindow(preceding, following, order_by, group_by) ==
    [preceding |-> preceding, following |-> following,
     order_by |-> order_by, group_by |-> group_by]

\* agg_compiler.compile_analytic(ex.UnaryAggregation(op, arg), window, bindings)
compile_analytic(op, arg, window, bindings) ==
    Term(op.name, "", 0, <<CompileExpression(arg, bindings)>>, window)

\* agg_ops: the operators the model applies over windows.
count_op == [name |-> "count", skips_nulls |-> FALSE, handles_ties |-> FALSE]
max_op == [name |-> "max", skips_nulls |-> TRUE, handles_ties |-> FALSE]

\* bigframes.core.window_spec.WindowSpec
WindowSpec(grouping_keys, ordering, preceding, following, min_periods) ==
    [grouping_keys |-> grouping_keys, ordering |-> ordering,
     preceding |-> preceding, following |-> following, min_periods |-> min_periods]

\* ibis.case().when(c1, v1)...else_(e).end()
Case(clauses, else_value) ==
    Term("case", "", 0,
         FlatMap([c \in Range(clauses) |-> c], clauses) \o <<else_value>>, NoWindow)

\* ibis.row_number().over(window): zero-based.
RowNumberOver(window) == Term("row_number", "", 0, <<>>, window)

\* ---------------------------------------------------------- ordering model
\* bigframes.core.ordering: OrderingExpression, IntegerEncoding and
\* ExpressionOrdering, as compiled.py uses them.
OrderingExpression(e, asc, na_last) ==
    [scalar_expression |-> e, asc |-> asc, na_last |-> na_last]

ascending_over(id) == OrderingExpression(Var(id), TRUE, TRUE)

IntegerEncoding(is_encoded, is_sequential) ==
    [is_encoded |-> is_encoded, is_sequential |-> is_sequential]

ExpressionOrdering(keys, total, enc) ==
    [ordering_value_columns |-> keys,
     total_ordering_columns |-> total,
     integer_encoding |-> enc,
     string_encoded |-> FALSE]

\* ExpressionOrdering(): no keys, no total order, no encoding.
DefaultOrdering == ExpressionOrdering(<<>>, {}, IntegerEncoding(FALSE, FALSE))

all_ordering_columns(o) == o.ordering_value_columns

is_sequential(o) == o.integer_encoding.is_encoded /\ o.integer_encoding.is_sequential

is_string_encoded(o) == o.string_encoded

\* The single ascending key of an ordering, when it has exactly that.
HasTotalOrderCol(o) ==
    /\ Len(o.ordering_value_columns) = 1
    /\ o.ordering_value_columns[1].asc

total_order_col(o) == o.ordering_value_columns[1]

with_non_sequential(o) ==
    IF o.integer_encoding.is_sequential
    THEN [o EXCEPT !.integer_encoding =
              IntegerEncoding(o.integer_encoding.is_encoded, FALSE)]
    ELSE o

\* Renames the columns the ordering refers to; encodings are kept.
with_column_remap(o, mapping) ==
    [o EXCEPT
       !.ordering_value_columns =
           [i \in DOMAIN o.ordering_value_columns |->
              [o.ordering_value_columns[i] EXCEPT !.scalar_expression =
                  BindVariables(@, [c \in DOMAIN mapping |-> Var(mapping[c])])]],
       !.total_ordering_columns =
           {IF c \in DOMAIN mapping THEN mapping[c] ELSE c :
              c \in o.total_ordering_columns}]

\* Reverses every key; the result carries no encoding.
with_reverse(o) ==
    ExpressionOrdering(
        [i \in DOMAIN o.ordering_value_columns |->
           OrderingExpression(o.ordering_value_columns[i].scalar_expression,
                              ~o.ordering_value_columns[i].asc,
                              ~o.ordering_value_columns[i].na_last)],
        o.total_ordering_columns,
        IntegerEncoding(FALSE, FALSE))

\* Re-sorts by the given keys, the previous keys breaking ties; the result
\* carries no encoding.
with_ordering_columns(o, by) ==
    ExpressionOrdering(by \o o.ordering_value_columns,
                       o.total_ordering_columns,
                       IntegerEncoding(FALSE, FALSE))

\* ------------------------------------------------------------------ tables
\* A backing table: an identity, its column names, the names of its columns
\* of array type (the rest hold integers) and its rows (functions from column
\* name to value).
Table(id, cols, arrays, rows) ==
    [kind |-> "table", id |-> id, columns |-> cols, arrays |-> arrays, rows |-> rows]

\* Whether an ibis value over a table has array type.
IsArrayValue(e, table) == e.op = "col" /\ e.a \in table.arrays

\* bigframes.core.guid.generate_guid(prefix): a name no earlier call returned.
generate_guid(prefix, g) == prefix \o ToString(g)

\* ------------------------------------------------------------------- nodes
Err(msg) == [kind |-> "error", msg |-> msg]
IsErr(x) == x.kind = "error"
IsOrdered(x) == x.kind = "ordered"
IsUnordered(x) == x.kind = "unordered"

Names(cols) == [i \in DOMAIN cols |-> cols[i].name]

RECURSIVE DictKeys(_)
\* Keys of {name: column for column in columns}: every name once, in the
\* order of its first occurrence.
DictKeys(names) ==
    IF names = <<>> THEN <<>>
    ELSE LET front == SubSeq(names, 1, Len(names) - 1)
             last == names[Len(names)]
         IN IF last \in Range(front) THEN DictKeys(front)
            ELSE DictKeys(front) \o <<last>>

\* Value of {name: column for column in columns}[key]: the last column of
\* that name wins.
DictGet(cols, key) ==
    cols[SetMax({i \in DOMAIN cols : cols[i].name = key})].e

\* BaseIbisIR.column_ids
column_ids(n) == DictKeys(Names(n.columns))

\* OrderedIR._hidden_column_ids
hidden_column_ids(n) == DictKeys(Names(n.hidden_ordering_columns))

\* {**self._column_names, **self._hidden_ordering_column_names}
AllColumns(n) == n.columns \o n.hidden_ordering_columns

\* OrderedIR._ibis_bindings: id -> ibis value, hidden columns included.
ibis_bindings(n) ==
    [c \in Range(Names(AllColumns(n))) |-> DictGet(AllColumns(n), c)]

\* Bindings of the visible columns only (filter, projection, window ops).
visible_bindings(n) ==
    [c \in Range(Names(n.columns)) |-> DictGet(n.columns, c)]

\* Ids an ordering's keys refer to.
OrderingColIds(o) ==
    UNION {UnboundVariables(o.ordering_value_columns[i].scalar_expression) :
             i \in DOMAIN o.ordering_value_columns}

\* UnorderedIR.__init__ / BaseIbisIR.__init__
UnorderedIR(table, columns, predicates) ==
    [kind |-> "unordered", table |-> table, columns |-> columns,
     hidden_ordering_columns |-> <<>>, ordering |-> DefaultOrdering,
     predicates |-> predicates]

\* The constructor without its validation (the shape of the object).
OrderedIRUnchecked(table, columns, hidden, ordering, predicates) ==
    [kind |-> "ordered", table |-> table, columns |-> columns,
     hidden_ordering_columns |-> hidden, ordering |-> ordering,
     predicates |-> predicates]

\* The constructor with the check of the ordering keys left out.
OrderedIRNoOrderingCheck(table, columns, hidden, ordering, predicates) ==
    IF Range(Names(columns)) \cap Range(Names(hidden)) # {}
    THEN Err("Keys in both hidden and exposed list")
    ELSE OrderedIRUnchecked(table, columns, hidden, ordering, predicates)

\* The constructor with the check of hidden against visible ids left out.
OrderedIRNoOverlapCheck(table, columns, hidden, ordering, predicates) ==
    IF \E i \in DOMAIN all_ordering_columns(ordering) :
          ~(UnboundVariables(all_ordering_columns(ordering)[i].scalar_expression)
               \subseteq Range(Names(columns)) \cup Range(Names(hidden)))
    THEN Err("Illegal ordering keys")
    ELSE OrderedIRUnchecked(table, columns, hidden, ordering, predicates)

\* OrderedIR.__init__: the node, or the ValueError of its validation.
OrderedIR(table, columns, hidden, ordering, predicates) ==
    LET value_col_ids == Range(Names(columns))
        hidden_col_ids == Range(Names(hidden))
        all_columns == value_col_ids \cup hidden_col_ids
        ordering_valid ==
            \A i \in DOMAIN all_ordering_columns(ordering) :
               UnboundVariables(all_ordering_columns(ordering)[i].scalar_expression)
                   \subseteq all_columns
    IN IF value_col_ids \cap hidden_col_ids # {}
       THEN Err("Keys in both hidden and exposed list")
       ELSE IF ~ordering_valid
       THEN Err("Illegal ordering keys")
       ELSE OrderedIRUnchecked(table, columns, hidden, ordering, predicates)

\* ---------------------------------------------------------------- emission
\* _reduce_predicate_list: the conjunction, folded from the left.  The
\* empty list is a ValueError.
\* The last predicate of the list in place of the conjunction of all.
LastPredicate(predicate_list) ==
    IF Len(predicate_list) = 0 THEN Err("Cannot reduce empty list of predicates")
    ELSE predicate_list[Len(predicate_list)]

RECURSIVE reduce_predicate_list(_)
reduce_predicate_list(predicate_list) ==
    IF Len(predicate_list) = 0 THEN Err("Cannot reduce empty list of predicates")
    ELSE IF Len(predicate_list) = 1 THEN predicate_list[1]
    ELSE Op2("and",
             reduce_predicate_list(SubSeq(predicate_list, 1, Len(predicate_list) - 1)),
             predicate_list[Len(predicate_list)])

\* BaseIbisIR._reduced_predicate: None (no column) for no predicates.
HasReducedPredicate(n) == Len(n.predicates) > 0
reduced_predicate(n) == Named(PREDICATE_COLUMN, reduce_predicate_list(n.predicates))

\* _convert_ordering_to_table_values: the ordering keys as ibis sort keys.
convert_ordering_to_table_values(value_lookup, ordering_columns) ==
    [k \in DOMAIN ordering_columns |->
       [e |-> CompileExpression(ordering_columns[k].scalar_expression, value_lookup),
        asc |-> ordering_columns[k].asc,
        na_last |-> ordering_columns[k].na_last]]

\* OrderedIR._ibis_order
ibis_order(n) ==
    convert_ordering_to_table_values(ibis_bindings(n), all_ordering_columns(n.ordering))

\* OrderedIR._compile_expression
compile_expression(n, e) == CompileExpression(e, ibis_bindings(n))

\* The offset window without the grouping by the reduced predicate.
OffsetWindowUngrouped(n) == Window(ibis_order(n), <<>>)

\* The window of _create_offset_column and _create_string_ordering_column.
OffsetWindow(n) ==
    Window(ibis_order(n),
           IF Len(n.predicates) > 0 THEN <<reduced_predicate(n).e>> ELSE <<>>)

\* OrderedIR._create_offset_column
create_offset_column(n) ==
    IF HasTotalOrderCol(n.ordering) /\ is_sequential(n.ordering)
    THEN compile_expression(n, total_order_col(n.ordering).scalar_expression)
    ELSE RowNumberOver(OffsetWindow(n))

\* OrderedIR._create_string_ordering_column
create_string_ordering_column(n) ==
    IF HasTotalOrderCol(n.ordering) /\ is_string_encoded(n.ordering)
    THEN CompileExpression(total_order_col(n.ordering).scalar_expression, ibis_bindings(n))
    ELSE IF HasTotalOrderCol(n.ordering) /\ n.ordering.integer_encoding.is_encoded
    THEN encode_order_string(
             compile_expression(n, total_order_col(n.ordering).scalar_expression))
    ELSE encode_order_string(RowNumberOver(OffsetWindow(n)))

\* OrderedIR._create_order_columns
create_order_columns(n, ordering_mode, order_col_name, expose_hidden_cols) ==
    IF ordering_mode = "offset_col"
    THEN <<Named(order_col_name, create_offset_column(n))>>
    ELSE IF ordering_mode = "string_encoded"
    THEN <<Named(order_col_name, create_string_ordering_column(n))>>
    ELSE IF expose_hidden_cols THEN n.hidden_ordering_columns
    ELSE <<>>

\* table.select(columns): the rows of the new relation.
SelectRows(rows, columns, tb) ==
    [i \in DOMAIN rows |->
       [c \in Range(Names(columns)) |-> Eval(DictGet(columns, c), rows, i, tb)]]

\* The subsequence of s at the indices in keep.
Restrict(s, keep) ==
    LET idx == SeqOfSet(keep \cap DOMAIN s) IN [k \in DOMAIN idx |-> s[idx[k]]]

\* Steps of _to_ibis_expr common to both node kinds: select, filter by the
\* reduced predicate, drop, rename, sample.  keep is the set of rows the
\* random sampling filter lets through (all rows when fraction is None).
EmitRelation(n, columns, columns_to_drop, col_id_overrides, keep, tb, g) ==
    IF columns = <<>> THEN Table(g, <<>>, {}, <<>>)
    ELSE IF ~IsDistinct(Names(columns)) THEN Err("duplicate column names in select")
    ELSE LET Renamed(c) == IF c \in DOMAIN col_id_overrides THEN col_id_overrides[c] ELSE c
             Passing(selected) ==
                 IF HasReducedPredicate(n)
                 THEN {i \in DOMAIN selected : selected[i][PREDICATE_COLUMN] = SqlTrue}
                 ELSE DOMAIN selected
             OutRows(selected, kept_names, out_names) ==
                 Restrict([i \in DOMAIN selected |->
                             [c \in Range(out_names) |->
                                selected[i][CHOOSE d \in Range(kept_names) : Renamed(d) = c]]],
                          Passing(selected) \cap keep)
             OutArrays(kept_names) ==
                 {Renamed(c) : c \in {d \in Range(kept_names) :
                                         IsArrayValue(DictGet(columns, d), n.table)}}
             Relation(kept_names, out_names) ==
                 IF ~(DOMAIN col_id_overrides \subseteq Range(kept_names))
                 THEN Err("rename: not an existing column")
                 ELSE IF ~IsDistinct(out_names) THEN Err("duplicate column names in rename")
                 ELSE Table(g, out_names, OutArrays(kept_names),
                            OutRows(SelectRows(n.table.rows, columns, tb),
                                    kept_names, out_names))
             Kept(kept_names) ==
                 Relation(kept_names, [k \in DOMAIN kept_names |-> Renamed(kept_names[k])])
         IN Kept(SelectSeq(Names(columns), LAMBDA c : c \notin columns_to_drop))

\* UnorderedIR._to_ibis_expr
UnorderedIR_to_ibis_expr(n, expose_hidden_cols, col_id_overrides, keep, tb, g) ==
    LET pred == IF HasReducedPredicate(n) THEN <<reduced_predicate(n)>> ELSE <<>>
        columns_to_drop == IF HasReducedPredicate(n) /\ ~expose_hidden_cols
                           THEN {PREDICATE_COLUMN} ELSE {}
    IN EmitRelation(n, n.columns \o pred, columns_to_drop, col_id_overrides, keep, tb, g)

\* OrderedIR._to_ibis_expr
OrderedIR_to_ibis_expr(n, ordering_mode, order_col_name, expose_hidden_cols, col_id_overrides, keep, tb, g) ==
    IF expose_hidden_cols /\ ordering_mode \in {"ordered_col", "offset_col"}
    THEN Err("Cannot expose hidden ordering columns")
    ELSE LET pred == IF HasReducedPredicate(n) THEN <<reduced_predicate(n)>> ELSE <<>>
             columns_to_drop == IF HasReducedPredicate(n) /\ ~expose_hidden_cols
                                THEN {PREDICATE_COLUMN} ELSE {}
             order_columns ==
                 create_order_columns(n, ordering_mode, order_col_name, expose_hidden_cols)
         IN EmitRelation(n, n.columns \o pred \o order_columns, columns_to_drop,
                         col_id_overrides, keep, tb, g)

\* table[column_name] for each name: direct references to the new table.
TableColumns(names) == [k \in DOMAIN names |-> Named(names[k], Col(names[k]))]

\* ---------------------------------------------------------------- builders
\* OrderedIR.builder / OrderedIR.Builder.__init__: a staging copy of the
\* node's fields.
OrderedIR_builder(n) ==
    [table |-> n.table, columns |-> n.columns,
     hidden_ordering_columns |-> n.hidden_ordering_columns,
     ordering |-> n.ordering, predicates |-> n.predicates]

\* OrderedIR.Builder.build
OrderedIR_build(b) ==
    OrderedIR(b.table, b.columns, b.hidden_ordering_columns, b.ordering, b.predicates)

\* UnorderedIR.builder / UnorderedIR.Builder.__init__
UnorderedIR_builder(n) ==
    [table |-> n.table, columns |-> n.columns, predicates |-> n.predicates]

\* UnorderedIR.Builder.build
UnorderedIR_build(b) == UnorderedIR(b.table, b.columns, b.predicates)

\* ------------------------------------------------- ordered transformations
\* BaseIbisIR._get_ibis_column succeeds only for an id of column_ids.
HasIbisColumn(n, key) == key \in Range(column_ids(n))
get_ibis_column(n, key) == DictGet(n.columns, key)

\* OrderedIR._get_any_column
get_any_column(n, key) == DictGet(AllColumns(n), key)

\* ValueError("Column name {} not in set of values: {}".format(key, column_ids))
ColumnNotFound(key, ids) ==
    [kind |-> "error", msg |-> "Column name not in set of values", key |-> key, ids |-> ids]

\* The lookup that also finds the hidden columns.
LookupAnyColumn(n, key) ==
    IF key \notin Range(Names(AllColumns(n)))
    THEN ColumnNotFound(key, column_ids(n))
    ELSE [kind |-> "value", e |-> get_any_column(n, key)]

\* BaseIbisIR._get_ibis_column, with the error it raises.
LookupColumn(n, key) ==
    IF ~HasIbisColumn(n, key)
    THEN ColumnNotFound(key, column_ids(n))
    ELSE [kind |-> "value", e |-> get_ibis_column(n, key)]

\* BaseIbisIR.get_column_type: the type of the looked-up value.
get_column_type(n, key) ==
    LET Typed(value) ==
            IF IsErr(value) THEN value ELSE [kind |-> "dtype", of |-> value.e]
    IN Typed(LookupColumn(n, key))

\* OrderedIR._filter
OrderedIR_filter_value(n, predicate_value) ==
    LET expr == OrderedIR_builder(n)
    IN OrderedIR_build([expr EXCEPT
                          !.ordering = with_non_sequential(expr.ordering),
                          !.predicates = Append(n.predicates, predicate_value)])

\* OrderedIR.filter
OrderedIR_filter(n, predicate) ==
    IF ~(UnboundVariables(predicate) \subseteq Range(column_ids(n)))
    THEN Err("unbound variable in predicate")
    ELSE OrderedIR_filter_value(n, CompileExpression(predicate, visible_bindings(n)))

\* order_by that sorts by the new keys alone.
OrderByReplacingKeys(n, by) ==
    OrderedIR_build([OrderedIR_builder(n) EXCEPT
                       !.ordering = ExpressionOrdering(by, n.ordering.total_ordering_columns,
                                                       IntegerEncoding(FALSE, FALSE))])

\* OrderedIR.order_by
OrderedIR_order_by(n, by) ==
    OrderedIR_build([OrderedIR_builder(n) EXCEPT
                       !.ordering = with_ordering_columns(n.ordering, by)])

\* OrderedIR.reversed
OrderedIR_reversed(n) ==
    OrderedIR_build([OrderedIR_builder(n) EXCEPT !.ordering = with_reverse(n.ordering)])

\* OrderedIR._hide_column without its lookup of the column (which fails for
\* an id that is not visible).
HideColumnBuild(n, column_id, g) ==
    LET new_name == generate_guid("bigframes_hidden_", g)
    IN OrderedIR_build([OrderedIR_builder(n) EXCEPT
          !.hidden_ordering_columns =
              Append(n.hidden_ordering_columns,
                     Named(new_name, get_ibis_column(n, column_id))),
          !.ordering = with_column_remap(n.ordering, (column_id :> new_name))])

\* OrderedIR._hide_column
OrderedIR_hide_column(n, column_id, g) ==
    IF ~HasIbisColumn(n, column_id) THEN Err("Column name not in set of values")
    ELSE HideColumnBuild(n, column_id, g)

\* The builder branch of _set_or_replace_by_id, for both node kinds:
\* zip(self.column_ids, self._columns) pairs the distinct ids with the
\* columns by position.
ReplacedColumns(n, id, new_value) ==
    IF id \in Range(column_ids(n))
    THEN [k \in 1..Min2(Len(column_ids(n)), Len(n.columns)) |->
            IF column_ids(n)[k] # id THEN n.columns[k] ELSE Named(id, new_value)]
    ELSE Append(n.columns, Named(id, new_value))

\* The mutation of a column the ordering reads, without hiding it first.
SetOrReplaceNoHide(n, id, new_value, g) ==
    OrderedIR_build([OrderedIR_builder(n) EXCEPT !.columns = ReplacedColumns(n, id, new_value)])

\* OrderedIR._set_or_replace_by_id
OrderedIR_set_or_replace_by_id(n, id, new_value, g) ==
    IF id \in OrderingColIds(n.ordering)
    THEN LET Replace(hid) ==
                 IF IsErr(hid) THEN hid
                 ELSE OrderedIR_build([OrderedIR_builder(hid) EXCEPT
                                         !.columns = ReplacedColumns(hid, id, new_value)])
         IN Replace(OrderedIR_hide_column(n, id, g))
    ELSE OrderedIR_build([OrderedIR_builder(n) EXCEPT
                            !.columns = ReplacedColumns(n, id, new_value)])

RECURSIVE HideAll(_, _, _)
\* The loop of OrderedIR._select over the ordering ids.  The keys of
\* mappings are the bound methods value.name, never an id, so
\* (ordering_id not in mappings) holds for every id: each ordering id that
\* is a visible column is hidden, and the mutate branch is never taken.
HideAll(ir, ordering_ids, g) ==
    IF IsErr(ir) \/ ordering_ids = <<>> THEN ir
    ELSE IF Head(ordering_ids) \in Range(column_ids(ir))
    THEN HideAll(OrderedIR_hide_column(ir, Head(ordering_ids), g), Tail(ordering_ids), g + 1)
    ELSE HideAll(ir, Tail(ordering_ids), g)

\* OrderedIR._select
OrderedIR_select(n, values, g) ==
    LET Build(ir) ==
            IF IsErr(ir) THEN ir
            ELSE OrderedIR_build([OrderedIR_builder(ir) EXCEPT !.columns = values])
    IN Build(HideAll(n, SetToSeq(OrderingColIds(n.ordering)), g))

\* _reproject_to_table that hands the pending predicates on to the new node.
ReprojectKeepingPredicates(n, tb, g) ==
    LET ordering_col_ids == OrderingColIds(n.ordering)
        Over(table, hidden) ==
            IF IsErr(table) THEN table
            ELSE IF ~(Range(column_ids(n)) \cup Range(hidden) \subseteq Range(table.columns))
            THEN Err("column not in table")
            ELSE OrderedIR(table, TableColumns(column_ids(n)), TableColumns(hidden),
                           n.ordering, n.predicates)
    IN Over(OrderedIR_to_ibis_expr(n, "unordered", ORDER_ID_COLUMN, TRUE,
                                   <<>>, DOMAIN n.table.rows, tb, g),
            SelectSeq(hidden_column_ids(n), LAMBDA c : c \in ordering_col_ids))

\* OrderedIR._reproject_to_table
OrderedIR_reproject_to_table(n, tb, g) ==
    LET ordering_col_ids == OrderingColIds(n.ordering)
        Over(table, hidden) ==
            IF IsErr(table) THEN table
            ELSE IF ~(Range(column_ids(n)) \cup Range(hidden) \subseteq Range(table.columns))
            THEN Err("column not in table")
            ELSE OrderedIR(table, TableColumns(column_ids(n)), TableColumns(hidden),
                           n.ordering, <<>>)
    IN Over(OrderedIR_to_ibis_expr(n, "unordered", ORDER_ID_COLUMN, TRUE,
                                   <<>>, DOMAIN n.table.rows, tb, g),
            SelectSeq(hidden_column_ids(n), LAMBDA c : c \in ordering_col_ids))

\* BaseIbisIR.projection on an ordered node
OrderedIR_projection(n, expression_id_pairs, tb, g) ==
    IF \E k \in DOMAIN expression_id_pairs :
          ~(UnboundVariables(expression_id_pairs[k][1]) \subseteq Range(column_ids(n)))
    THEN Err("unbound variable in projection")
    ELSE LET values == [k \in DOMAIN expression_id_pairs |->
                          Named(expression_id_pairs[k][2],
                                CompileExpression(expression_id_pairs[k][1],
                                                  visible_bindings(n)))]
             Reprojected(result) ==
                 IF IsErr(result) THEN result
                 ELSE IF \E k \in DOMAIN expression_id_pairs :
                            IsConst(expression_id_pairs[k][1])
                 THEN OrderedIR_reproject_to_table(result, tb,
                                                   g + Len(expression_id_pairs) + 1)
                 ELSE result
         IN Reprojected(OrderedIR_select(n, values, g))

\* _ibis_window_from_spec that never appends the ordering of the node to the
\* explicit keys.
WindowFromSpecKeysOnly(n, window_spec, allow_ties) ==
    LET group_by ==
            [k \in DOMAIN window_spec.grouping_keys |->
               get_ibis_column(n, window_spec.grouping_keys[k])]
            \o (IF HasReducedPredicate(n) THEN <<reduced_predicate(n).e>> ELSE <<>>)
        order_by ==
            IF Len(window_spec.ordering) > 0
            THEN convert_ordering_to_table_values(ibis_bindings(n), window_spec.ordering)
            ELSE IF window_spec.following # Null \/ window_spec.preceding # Null
            THEN ibis_order(n)
            ELSE <<>>
    IN FrameWindow(window_spec.preceding, window_spec.following, order_by, group_by)

\* OrderedIR._ibis_window_from_spec
ibis_window_from_spec(n, window_spec, allow_ties) ==
    LET group_by ==
            [k \in DOMAIN window_spec.grouping_keys |->
               get_ibis_column(n, window_spec.grouping_keys[k])]
            \o (IF HasReducedPredicate(n) THEN <<reduced_predicate(n).e>> ELSE <<>>)
        order_by ==
            IF Len(window_spec.ordering) > 0
            THEN convert_ordering_to_table_values(ibis_bindings(n), window_spec.ordering)
                 \o (IF ~allow_ties THEN ibis_order(n) ELSE <<>>)
            ELSE IF window_spec.following # Null \/ window_spec.preceding # Null
            THEN ibis_order(n)
            ELSE <<>>
    IN FrameWindow(window_spec.preceding, window_spec.following, order_by, group_by)

\* The value of project_window_op with NULLs counted as observations for
\* every operator.
WindowOpValueCountingNulls(n, column_name, op, window_spec, never_skip_nulls) ==
    LET bindings == visible_bindings(n)
        Clauses(column, window) ==
            (IF op.skips_nulls /\ ~never_skip_nulls
             THEN <<<<Op1("isnull", column), Lit(Null)>>>> ELSE <<>>)
            \o (IF window_spec.min_periods # 0
                THEN <<<<Op2("lt", Term("count", "", 0, <<Op1("notnull", column)>>, window),
                             Lit(window_spec.min_periods)),
                         Lit(Null)>>>>
                ELSE <<>>)
        Guarded(clauses, window_op) ==
            IF Len(clauses) > 0 THEN Case(clauses, window_op) ELSE window_op
        Over(column, window) ==
            Guarded(Clauses(column, window),
                    compile_analytic(op, Var(column_name), window, bindings))
    IN Over(get_ibis_column(n, column_name),
            ibis_window_from_spec(n, window_spec, op.handles_ties))

\* The value project_window_op computes for its output column.
WindowOpValue(n, column_name, op, window_spec, never_skip_nulls) ==
    LET bindings == visible_bindings(n)
        ObservationCount(column, window) ==
            IF op.skips_nulls
            THEN compile_analytic(count_op, Var(column_name), window, bindings)
            ELSE Term("count", "", 0, <<Op1("notnull", column)>>, window)
        Clauses(column, window) ==
            (IF op.skips_nulls /\ ~never_skip_nulls
             THEN <<<<Op1("isnull", column), Lit(Null)>>>> ELSE <<>>)
            \o (IF window_spec.min_periods # 0
                THEN <<<<Op2("lt", ObservationCount(column, window),
                             Lit(window_spec.min_periods)),
                         Lit(Null)>>>>
                ELSE <<>>)
        Guarded(clauses, window_op) ==
            IF Len(clauses) > 0 THEN Case(clauses, window_op) ELSE window_op
        Over(column, window) ==
            Guarded(Clauses(column, window),
                    compile_analytic(op, Var(column_name), window, bindings))
    IN Over(get_ibis_column(n, column_name),
            ibis_window_from_spec(n, window_spec, op.handles_ties))

\* OrderedIR.project_window_op; an output_name of "" is None.
OrderedIR_project_window_op(n, column_name, op, window_spec, output_name, never_skip_nulls, skip_reproject_unsafe, tb, g) ==
    IF ~HasIbisColumn(n, column_name)
          \/ \E k \in DOMAIN window_spec.grouping_keys :
                ~HasIbisColumn(n, window_spec.grouping_keys[k])
    THEN Err("ColumnNotFound")
    ELSE IF \E k \in DOMAIN window_spec.ordering :
               ~(UnboundVariables(window_spec.ordering[k].scalar_expression)
                    \subseteq DOMAIN ibis_bindings(n))
    THEN Err("unbound variable in window ordering")
    ELSE LET Reprojected(result) ==
                 IF IsErr(result) \/ skip_reproject_unsafe THEN result
                 ELSE OrderedIR_reproject_to_table(result, tb, g + 1)
         IN Reprojected(OrderedIR_set_or_replace_by_id(
                            n, IF output_name # "" THEN output_name ELSE column_name,
                            WindowOpValue(n, column_name, op, window_spec,
                                          never_skip_nulls),
                            g))

\* OrderedIR._uniform_sampling
OrderedIR_uniform_sampling(n, keep, tb, g) ==
    LET Over(table) ==
            IF IsErr(table) THEN table
            ELSE IF ~(Range(column_ids(n)) \cup Range(hidden_column_ids(n))
                         \subseteq Range(table.columns))
            THEN Err("column not in table")
            ELSE OrderedIR(table, TableColumns(column_ids(n)),
                           TableColumns(hidden_column_ids(n)), n.ordering, <<>>)
    IN Over(OrderedIR_to_ibis_expr(n, "unordered", ORDER_ID_COLUMN, TRUE,
                                   <<>>, keep, tb, g))

\* The offsets ordering without the sequential mark.
ProjectedOrderingUnmarked ==
    ExpressionOrdering(<<ascending_over(ORDER_ID_COLUMN)>>, {ORDER_ID_COLUMN},
                       IntegerEncoding(TRUE, FALSE))

\* The ordering _project_offsets gives its result.
ProjectedOrdering ==
    ExpressionOrdering(<<ascending_over(ORDER_ID_COLUMN)>>, {ORDER_ID_COLUMN},
                       IntegerEncoding(TRUE, TRUE))

\* OrderedIR._project_offsets
OrderedIR_project_offsets(n, tb, g) ==
    IF is_sequential(n.ordering) THEN n
    ELSE LET Over(table) ==
                 IF IsErr(table) THEN table
                 ELSE IF ~(Range(column_ids(n)) \cup {ORDER_ID_COLUMN}
                              \subseteq Range(table.columns))
                 THEN Err("column not in table")
                 ELSE OrderedIR(table, TableColumns(column_ids(n)),
                                TableColumns(<<ORDER_ID_COLUMN>>), ProjectedOrdering, <<>>)
         IN Over(OrderedIR_to_ibis_expr(n, "offset_col", ORDER_ID_COLUMN, FALSE,
                                        <<>>, DOMAIN n.table.rows, tb, g))

\* OrderedIR.promote_offsets: one _project_offsets brings a node to a
\* sequential single-key ordering; a node that _project_offsets returns as
\* it is, yet is refused here, recurses without end.
OrderedIR_promote_offsets(n, col_id, tb, g) ==
    LET Ready(m) == is_sequential(m.ordering) /\ HasTotalOrderCol(m.ordering)
        Promote(m) ==
            OrderedIR_build([OrderedIR_builder(m) EXCEPT
               !.columns = <<Named(col_id,
                                   compile_expression(m, total_order_col(m.ordering).scalar_expression))>>
                           \o m.columns])
        Again(projected) ==
            IF IsErr(projected) THEN projected
            ELSE IF Ready(projected) THEN Promote(projected)
            ELSE Err("RecursionError")
    IN IF Ready(n) THEN Promote(n)
       ELSE Again(OrderedIR_project_offsets(n, tb, g))

\* free_var(baked_column.name): name is the renaming method of an ibis value,
\* so the variable's id is that bound method and never a column id.
BakedVariableId(name) == "<bound method Value.name of " \o name \o ">"

\* OrderedIR._bake_ordering
OrderedIR_bake_ordering(n, g) ==
    LET keys == all_ordering_columns(n.ordering)
        BakedName(k) == generate_guid("", g + k)
        baked == SelectSeq([k \in DOMAIN keys |-> k],
                           LAMBDA k : IsOpExpression(keys[k].scalar_expression))
        new_baked_cols ==
            [j \in DOMAIN baked |->
               Named(BakedName(baked[j]),
                     compile_expression(n, keys[baked[j]].scalar_expression))]
        new_exprs ==
            [k \in DOMAIN keys |->
               IF IsOpExpression(keys[k].scalar_expression)
               THEN OrderingExpression(Var(BakedVariableId(BakedName(k))),
                                       keys[k].asc, keys[k].na_last)
               ELSE keys[k]]
    IN OrderedIR(n.table, n.columns, n.hidden_ordering_columns \o new_baked_cols,
                 with_ordering_columns(n.ordering, new_exprs), n.predicates)

\* OrderedIR.to_unordered
OrderedIR_to_unordered(n) == UnorderedIR(n.table, n.columns, n.predicates)

\* ----------------------------------------------- unordered transformations
\* UnorderedIR._filter
UnorderedIR_filter_value(n, predicate_value) ==
    UnorderedIR_build([UnorderedIR_builder(n) EXCEPT
                         !.predicates = Append(n.predicates, predicate_value)])

\* UnorderedIR.filter
UnorderedIR_filter(n, predicate) ==
    IF ~(UnboundVariables(predicate) \subseteq Range(column_ids(n)))
    THEN Err("unbound variable in predicate")
    ELSE UnorderedIR_filter_value(n, CompileExpression(predicate, visible_bindings(n)))

\* UnorderedIR._set_or_replace_by_id
UnorderedIR_set_or_replace_by_id(n, id, new_value) ==
    UnorderedIR_build([UnorderedIR_builder(n) EXCEPT
                         !.columns = ReplacedColumns(n, id, new_value)])

\* UnorderedIR._select
UnorderedIR_select(n, values) ==
    UnorderedIR_build([UnorderedIR_builder(n) EXCEPT !.columns = values])

\* UnorderedIR._reproject_to_table
UnorderedIR_reproject_to_table(n, tb, g) ==
    LET Over(table) ==
            IF IsErr(table) THEN table
            ELSE IF ~(Range(column_ids(n)) \subseteq Range(table.columns))
            THEN Err("column not in table")
            ELSE UnorderedIR(table, TableColumns(column_ids(n)), <<>>)
    IN Over(UnorderedIR_to_ibis_expr(n, FALSE, <<>>, DOMAIN n.table.rows, tb, g))

\* UnorderedIR._uniform_sampling
UnorderedIR_uniform_sampling(n, keep, tb, g) ==
    LET Over(table) ==
            IF IsErr(table) THEN table
            ELSE IF ~(Range(column_ids(n)) \subseteq Range(table.columns))
            THEN Err("column not in table")
            ELSE UnorderedIR(table, TableColumns(column_ids(n)), <<>>)
    IN Over(UnorderedIR_to_ibis_expr(n, FALSE, <<>>, keep, tb, g))

\* BaseIbisIR.projection on an unordered node
UnorderedIR_projection(n, expression_id_pairs, tb, g) ==
    IF \E k \in DOMAIN expression_id_pairs :
          ~(UnboundVariables(expression_id_pairs[k][1]) \subseteq Range(column_ids(n)))
    THEN Err("unbound variable in projection")
    ELSE LET values == [k \in DOMAIN expression_id_pairs |->
                          Named(expression_id_pairs[k][2],
                                CompileExpression(expression_id_pairs[k][1],
                                                  visible_bindings(n)))]
             Reprojected(result) ==
                 IF \E k \in DOMAIN expression_id_pairs : IsConst(expression_id_pairs[k][1])
                 THEN UnorderedIR_reproject_to_table(result, tb, g)
                 ELSE result
         IN Reprojected(UnorderedIR_select(n, values))

\* ------------------------------------------------------------------ to_sql
\* ibis_bigquery.Backend().compile(table), and the SELECT ... FROM (...)
\* ORDER BY ... that to_sql wraps around it: the text is kept as the relation
\* it reads, the columns it selects and the keys it orders by.
Sql(selection, relation, order_by) ==
    [kind |-> "sql", selection |-> selection, relation |-> relation,
     order_by |-> order_by]

\* Python truth of an Optional[str], the argument being <<>> for None and
\* <<name>> for a string: None and "" are false.
IsTruthy(optional) == optional # <<>> /\ optional[1] # ""

\* UnorderedIR.to_sql with the test of its arguments left out.
UnorderedIR_to_sql_unchecked(n, offset_column, col_id_overrides, sorted, tb, g) ==
    LET Compiled(table) ==
            IF IsErr(table) THEN table ELSE Sql(table.columns, table, <<>>)
    IN Compiled(UnorderedIR_to_ibis_expr(n, FALSE, col_id_overrides,
                                         DOMAIN n.table.rows, tb, g))

\* UnorderedIR.to_sql
UnorderedIR_to_sql(n, offset_column, col_id_overrides, sorted, tb, g) ==
    IF IsTruthy(offset_column) \/ sorted
    THEN Err("Cannot produce sorted sql in unordered mode")
    ELSE LET Compiled(table) ==
                 IF IsErr(table) THEN table ELSE Sql(table.columns, table, <<>>)
         IN Compiled(UnorderedIR_to_ibis_expr(n, FALSE, col_id_overrides,
                                              DOMAIN n.table.rows, tb, g))

RECURSIVE ordering_clause(_)
\* OrderedIR._ordering_clause: one part for each key that is a column
\* reference, none for a constant, a ValueError for any other expression.
ordering_clause(ordering) ==
    IF ordering = <<>> THEN [kind |-> "order_by", parts |-> <<>>]
    ELSE LET Parts(rest) ==
                 IF IsErr(rest) \/ IsConst(Head(ordering).scalar_expression) THEN rest
                 ELSE [rest EXCEPT !.parts =
                          <<[id |-> Head(ordering).scalar_expression.a,
                             asc |-> Head(ordering).asc,
                             na_last |-> Head(ordering).na_last]>> \o @]
         IN IF ~IsConst(Head(ordering).scalar_expression)
               /\ ~IsUnboundVariable(Head(ordering).scalar_expression)
            THEN Err("Expected direct column reference.")
            ELSE Parts(ordering_clause(Tail(ordering)))

\* OrderedIR.to_sql
OrderedIR_to_sql(n, col_id_overrides, sorted, tb, g) ==
    LET Renamed(c) == IF c \in DOMAIN col_id_overrides THEN col_id_overrides[c] ELSE c
        Plain(table) ==
            IF IsErr(table) THEN table ELSE Sql(table.columns, table, <<>>)
        Ordered(baked_ir, table, order_by_clause) ==
            IF IsErr(table) THEN table
            ELSE IF IsErr(order_by_clause) THEN order_by_clause
            ELSE Sql([k \in DOMAIN column_ids(baked_ir) |-> Renamed(column_ids(baked_ir)[k])],
                     table, order_by_clause.parts)
        Wrapped(baked_ir) ==
            IF IsErr(baked_ir) THEN baked_ir
            ELSE Ordered(baked_ir,
                         OrderedIR_to_ibis_expr(baked_ir, "unordered", ORDER_ID_COLUMN, TRUE,
                                                col_id_overrides, DOMAIN n.table.rows,
                                                tb, g + 1),
                         ordering_clause(all_ordering_columns(baked_ir.ordering)))
    IN IF sorted THEN Wrapped(OrderedIR_bake_ordering(n, g))
       ELSE Plain(OrderedIR_to_ibis_expr(n, "unordered", ORDER_ID_COLUMN, FALSE,
                                         col_id_overrides, DOMAIN n.table.rows, tb, g))

\* --------------------------------------------------------------- aggregate
\* agg_compiler.compile_aggregate(aggregate, bindings): the reduction of its
\* bound argument over the rows of a group.
compile_aggregate(aggregate, bindings) ==
    Term(aggregate.op.name, "", 0, <<CompileExpression(aggregate.arg, bindings)>>, NoWindow)

\* table.group_by(by).aggregate(**stats), and table.aggregate(**stats) for
\* no grouping column: one row for each distinct combination of the values of
\* the grouping columns (NULL is one value), holding that combination and the
\* reductions over the rows that have it; without grouping columns one row
\* over all rows, also of an empty table.  COUNT counts the non-null values,
\* MAX is NULL when there is none.
TableAggregate(table, by, stats, tb, g) ==
    LET GroupKey(i) == [k \in DOMAIN by |-> table.rows[i][by[k]]]
        Members(i) == {j \in DOMAIN table.rows : GroupKey(j) = GroupKey(i)}
        Reduced(e, members) ==
            IF e.op = "lit" THEN e.n
            ELSE IF e.op = "count"
            THEN Cardinality({j \in members : Eval(e.args[1], table.rows, j, tb) # Null})
            ELSE IF \A j \in members : Eval(e.args[1], table.rows, j, tb) = Null
            THEN Null
            ELSE SetMax({Eval(e.args[1], table.rows, j, tb) : j \in members} \ {Null})
        GroupRow(outs, leader, members) ==
            [c \in Range(by) \cup Range(outs) |->
               IF c \in Range(by) THEN table.rows[leader][c]
               ELSE Reduced(DictGet(stats, c), members)]
        Groups(outs, leaders) ==
            IF by = <<>> THEN <<GroupRow(outs, 0, DOMAIN table.rows)>>
            ELSE [k \in DOMAIN leaders |-> GroupRow(outs, leaders[k], Members(leaders[k]))]
        Result(outs) ==
            Table(g, by \o outs, {},
                  Groups(outs, SeqOfSet({i \in DOMAIN table.rows :
                                           \A j \in 1..(i - 1) : GroupKey(j) # GroupKey(i)})))
    IN Result(DictKeys(Names(stats)))

\* The dropna loop cut short after the first grouping column.
DropNullKeysFirst(expr, by) ==
    IF IsErr(expr) \/ by = <<>> THEN expr
    ELSE OrderedIR_filter_value(expr, Op1("notnull", get_ibis_column(expr, Head(by))))

RECURSIVE DropNullKeys(_, _)
\* The dropna loop of aggregate: one pending notnull predicate for each
\* grouping column.
DropNullKeys(expr, by) ==
    IF IsErr(expr) \/ by = <<>> THEN expr
    ELSE DropNullKeys(OrderedIR_filter_value(
                          expr, Op1("notnull", get_ibis_column(expr, Head(by)))),
                      Tail(by))

\* UnorderedIR.aggregate; an aggregation is a pair <<[op, arg], output id>>.
UnorderedIR_aggregate(n, aggregations, by_column_ids, dropna, tb, g) ==
    LET bindings == [c \in Range(column_ids(n)) |-> Col(c)]
        stats == [k \in DOMAIN aggregations |->
                    Named(aggregations[k][2],
                          compile_aggregate(aggregations[k][1], bindings))]
        Grouped(result) ==
            OrderedIR(result, TableColumns(result.columns), <<>>,
                      ExpressionOrdering([k \in DOMAIN by_column_ids |->
                                            ascending_over(by_column_ids[k])],
                                         Range(by_column_ids),
                                         IntegerEncoding(FALSE, FALSE)),
                      <<>>)
        Promoted(expr) ==
            IF IsErr(expr) THEN expr
            ELSE OrderedIR_project_offsets(expr, [i \in DOMAIN expr.table.rows |-> i], g + 2)
        Single(result) ==
            OrderedIR(result, TableColumns(DictKeys(Names(stats))),
                      TableColumns(<<ORDER_ID_COLUMN>>), DefaultOrdering, <<>>)
        Over(table) ==
            IF IsErr(table) THEN table
            ELSE IF \E k \in DOMAIN aggregations :
                       ~(UnboundVariables(aggregations[k][1].arg) \subseteq DOMAIN bindings)
            THEN Err("unbound variable in aggregation")
            ELSE IF Len(by_column_ids) > 0
            THEN IF ~(Range(by_column_ids) \subseteq Range(table.columns) \ table.arrays)
                 THEN Err("group_by: not a column that can be grouped")
                 ELSE IF Range(by_column_ids) \cap Range(Names(stats)) # {}
                 THEN Err("duplicate column names in aggregate")
                 ELSE Promoted(DropNullKeys(
                          Grouped(TableAggregate(table, by_column_ids, stats, tb, g + 1)),
                          IF dropna THEN by_column_ids ELSE <<>>))
            ELSE Single(TableAggregate(table, <<>>,
                                       Append(stats, Named(ORDER_ID_COLUMN, Lit(0))),
                                       tb, g + 1))
    IN Over(UnorderedIR_to_ibis_expr(n, FALSE, <<>>, DOMAIN n.table.rows, tb, g))

\* ----------------------------------------------------------------- explode
\* vendored GenerateArray(n): GENERATE_ARRAY(0, n), the integers 0..n.
GenerateArray(n) == [k \in 1..(n + 1) |-> k - 1]

\* ibis.least / ibis.greatest over integers
Least(S) == SetMin(S)
Greatest(S) == SetMax(S)

\* The length bound of the offset array, without the clamp at zero.
OffsetBoundUnclamped(row, column_ids_) ==
    Least({Len(row[column_ids_[k]]) - 1 : k \in DOMAIN column_ids_})

\* The length bound taken over the longest exploded array.
OffsetBoundLongest(row, column_ids_) ==
    Greatest({0} \cup {Len(row[column_ids_[k]]) - 1 : k \in DOMAIN column_ids_})

\* greatest(0, least(length(c) - 1 for the exploded columns c))
OffsetBound(row, column_ids_) ==
    Greatest({0, Least({Len(row[column_ids_[k]]) - 1 : k \in DOMAIN column_ids_})})

\* The offset array of one row of the emitted relation.
OffsetArray(row, column_ids_) == GenerateArray(OffsetBound(row, column_ids_))

\* array[offset]: SAFE_OFFSET, NULL outside the array.
ArrayIndex(arr, k) == IF k = Null \/ k < 0 \/ k >= Len(arr) THEN Null ELSE arr[k + 1]

\* The rows of table_w_unnest: the offset array of every source row (its
\* bound taken over column_ids_) is unnested, each column of unnested becomes
\* its element at the offset, the columns of carried are copied, and, for
\* the ordered node, the offset is kept under unnest_offset_id.
ExplodeRows(rows, column_ids_, unnested, carried, unnest_offset_id, keep_offset) ==
    LET Out(i, k) ==
            [c \in Range(unnested) \cup Range(carried)
                     \cup (IF keep_offset THEN {unnest_offset_id} ELSE {}) |->
               IF c = unnest_offset_id /\ keep_offset
               THEN OffsetArray(rows[i], column_ids_)[k]
               ELSE IF c \in Range(unnested)
               THEN ArrayIndex(rows[i][c], OffsetArray(rows[i], column_ids_)[k])
               ELSE rows[i][c]]
        per_row == [i \in DOMAIN rows |->
                      [k \in DOMAIN OffsetArray(rows[i], column_ids_) |-> Out(i, k)]]
    IN FlatMap(per_row, [i \in DOMAIN rows |-> i])

\* column.length() is defined for the array columns of the relation only.
CanExplode(table, column_ids_) ==
    /\ column_ids_ # <<>>
    /\ Range(column_ids_) \subseteq table.arrays

\* UnorderedIR.explode
UnorderedIR_explode(n, column_ids_, tb, g) ==
    LET Unnest(table, names, unnested, carried) ==
            IF IsErr(table) THEN table
            ELSE IF ~CanExplode(table, column_ids_) THEN Err("explode: not an array column")
            ELSE UnorderedIR(Table(g, names, table.arrays \ Range(unnested),
                                   ExplodeRows(table.rows, column_ids_, unnested, carried,
                                               generate_guid("unnest_offset_", g + 1),
                                               FALSE)),
                             TableColumns(names), <<>>)
    IN Unnest(UnorderedIR_to_ibis_expr(n, FALSE, <<>>, DOMAIN n.table.rows, tb, g),
              column_ids(n),
              SelectSeq(column_ids(n), LAMBDA c : c \in Range(column_ids_)),
              SelectSeq(column_ids(n), LAMBDA c : c \notin Range(column_ids_)))

\* The ordering with the unnest position as the most significant key.
ExplodedOrderingOffsetFirst(o, unnest_offset_id) ==
    ExpressionOrdering(
        <<ascending_over(unnest_offset_id)>> \o o.ordering_value_columns,
        o.total_ordering_columns \cup {unnest_offset_id},
        IntegerEncoding(FALSE, FALSE))

\* The ordering OrderedIR.explode gives its result: the keys of the node,
\* then the unnest position.
ExplodedOrdering(o, unnest_offset_id) ==
    ExpressionOrdering(
        Append(o.ordering_value_columns, ascending_over(unnest_offset_id)),
        o.total_ordering_columns \cup {unnest_offset_id},
        IntegerEncoding(FALSE, FALSE))

\* OrderedIR.explode
OrderedIR_explode(n, column_ids_, tb, g) ==
    LET Unnest(table, unnest_offset_id, names, hidden, unnested, carried) ==
            IF IsErr(table) THEN table
            ELSE IF ~CanExplode(table, column_ids_) THEN Err("explode: not an array column")
            ELSE OrderedIR(Table(g, <<unnest_offset_id>> \o names \o hidden,
                                 table.arrays \ Range(unnested),
                                 ExplodeRows(table.rows, column_ids_, unnested,
                                             carried \o hidden, unnest_offset_id, TRUE)),
                           TableColumns(names),
                           TableColumns(Append(hidden, unnest_offset_id)),
                           ExplodedOrdering(n.ordering, unnest_offset_id), <<>>)
    IN Unnest(OrderedIR_to_ibis_expr(n, "unordered", ORDER_ID_COLUMN, TRUE,
                                     <<>>, DOMAIN n.table.rows, tb, g),
              generate_guid("unnest_offset_", g + 1),
              column_ids(n), hidden_column_ids(n),
              SelectSeq(column_ids(n), LAMBDA c : c \in Range(column_ids_)),
              SelectSeq(column_ids(n), LAMBDA c : c \notin Range(column_ids_)))

\* ------------------------------------------------------------ object store
\* Python objects behind a node: every sequence attribute is a reference to
\* a cell of the store, a mutable list or an immutable tuple (or the dict of
\* column names).  Reference 0 is an attribute the object does not have.
Cell(kind, items) == [kind |-> kind, items |-> items]
EmptyMem == [store |-> <<>>, nodes |-> <<>>, builders |-> <<>>]
Items(store, ref) == IF ref = 0 THEN <<>> ELSE store[ref].items
Allocated(store, cell) == [store |-> Append(store, cell), ref |-> Len(store) + 1]

\* Storing the argument itself instead of a tuple of its items.
tuple_aliased(store, ref) == [store |-> store, ref |-> ref]

\* tuple(x) in the constructors: x itself when x is a tuple, a new tuple
\* with the items of x otherwise.
tuple_of(store, ref) ==
    IF ref = 0 \/ store[ref].kind = "tuple" THEN [store |-> store, ref |-> ref]
    ELSE Allocated(store, Cell("tuple", store[ref].items))

\* list(x) in Builder.__init__ and in _to_ibis_expr: always a new list.
list_of(store, ref) ==
    IF ref = 0 THEN [store |-> store, ref |-> ref]
    ELSE Allocated(store, Cell("list", store[ref].items))

\* The fields of a node object as the node they denote, and its column_ids.
Deref(store, o) ==
    [kind |-> o.kind, table |-> o.table, columns |-> Items(store, o.columns),
     hidden_ordering_columns |-> Items(store, o.hidden_ordering_columns),
     ordering |-> o.ordering, predicates |-> Items(store, o.predicates)]
ColumnIdsOf(store, o) == Items(store, o.column_names)

\* BaseIbisIR.__init__ / OrderedIR.__init__ on the heap: v is the node the
\* arguments denote (they passed validation); the object keeps tuples of its
\* sequence arguments and a new dict of column names.  snapshot records what
\* the object denoted when it was constructed.
NewObject(store, v, columns, hidden, predicates, origin) ==
    LET Object(c, h, p, d) ==
            [kind |-> "object", store |-> d.store,
             obj |-> [kind |-> v.kind, table |-> v.table, columns |-> c.ref,
                      hidden_ordering_columns |-> h.ref, predicates |-> p.ref,
                      column_names |-> d.ref, ordering |-> v.ordering,
                      origin |-> origin,
                      snapshot |-> [value |-> v, column_ids |-> column_ids(v)]]]
        WithNames(c, h, p) ==
            Object(c, h, p, Allocated(p.store, Cell("dict", column_ids(v))))
        WithPredicates(c, h) == WithNames(c, h, tuple_of(h.store, predicates))
        WithHidden(c) == WithPredicates(c, tuple_of(c.store, hidden))
    IN WithHidden(tuple_of(store, columns))

\* The node a builder's fields denote, as its build() validates it.
BuilderValue(store, b) ==
    IF b.kind = "ordered"
    THEN OrderedIR(b.table, Items(store, b.columns),
                   Items(store, b.hidden_ordering_columns), b.ordering,
                   Items(store, b.predicates))
    ELSE UnorderedIR(b.table, Items(store, b.columns), Items(store, b.predicates))

\* Builder.build on the heap: the constructor gets the builder's own lists.
Builder_build(store, b) ==
    LET Constructed(v) ==
            IF IsErr(v) THEN v
            ELSE NewObject(store, v, b.columns, b.hidden_ordering_columns, b.predicates,
                           "build")
    IN Constructed(BuilderValue(store, b))

\* builder() / Builder.__init__ on the heap: a list copy of every sequence
\* field of node object o, which is node number k.
Builder_init(store, o, k) ==
    LET Builder(c, h, p) ==
            [store |-> p.store,
             builder |-> [kind |-> o.kind, table |-> o.table, columns |-> c.ref,
                          hidden_ordering_columns |-> h.ref, predicates |-> p.ref,
                          ordering |-> o.ordering, source |-> k]]
        WithPredicates(c, h) == Builder(c, h, list_of(h.store, o.predicates))
        WithHidden(c) == WithPredicates(c, list_of(c.store, o.hidden_ordering_columns))
    IN WithHidden(list_of(store, o.columns))

\* A transformation on the heap: it stages the fields of its result v in
\* the lists of a builder of its own and builds the result from them.
ResultObject(store, v, origin) ==
    LET Built(c, h, p) == NewObject(p.store, v, c.ref, h.ref, p.ref, origin)
        WithPredicates(c, h) == Built(c, h, Allocated(h.store, Cell("list", v.predicates)))
        WithHidden(c) ==
            WithPredicates(c, IF v.kind = "ordered"
                              THEN Allocated(c.store, Cell("list", v.hidden_ordering_columns))
                              ELSE [store |-> c.store, ref |-> 0])
    IN WithHidden(Allocated(store, Cell("list", v.columns)))

\* ---------------------------------------------------------- global session
\* The module state of global_session.py and the options: _global_session
\* (<<>> for None, <<id>> for a session), the holder of _global_session_lock
\* (0 when free), options.bigquery._session_started, the number of sessions
\* connect has created, the ids of the sessions closed (in order), the
\* session ids whose temporary tables were deleted, the calls begun, the
\* number of times the locked block of close_session() has run, and the
\* position and last result of every thread.
Threads == 1..MaxThreads

NoReturn == [kind |-> "none"]
Returned(value) == [kind |-> "returned", value |-> value]
Raised(msg) == [kind |-> "raised", msg |-> msg]

IdleThread == [pc |-> "idle", call |-> "none", skip_cleanup |-> FALSE, ret |-> NoReturn]

ModuleState ==
    [kind |-> "session", global_session |-> <<>>, lock |-> 0,
     session_started |-> FALSE, connected |-> 0, closed |-> <<>>, cleaned |-> {},
     calls |-> 0, closes |-> 0, thread |-> [t \in Threads |-> IdleThread]]

\* bigframes.session.connect(options): a new session; the session marks the
\* options as started.
connect(s) ==
    [s EXCEPT !.connected = @ + 1,
              !.global_session = <<s.connected + 1>>,
              !.session_started = TRUE]

\* get_global_session with a block that connects whether or not a session
\* exists.
connect_always(s) == connect(s)

\* get_global_session, the block under the lock.
get_global_session_locked(s) ==
    IF s.global_session = <<>> THEN connect(s) ELSE s

\* close_session() that closes the session also when skip_cleanup is true.
close_session_always_cleanup(s, skip_cleanup) ==
    IF s.global_session # <<>>
    THEN [s EXCEPT !.closed = Append(@, s.global_session[1]), !.global_session = <<>>,
                   !.session_started = FALSE, !.closes = @ + 1]
    ELSE [s EXCEPT !.session_started = FALSE, !.closes = @ + 1]

\* close_session(session_id=None), the block under the lock.
close_session_locked(s, skip_cleanup) ==
    LET Cleared(closed) ==
            [s EXCEPT !.closed = closed, !.global_session = <<>>,
                      !.session_started = FALSE, !.closes = @ + 1]
    IN IF s.global_session # <<>>
       THEN Cleared(IF ~skip_cleanup THEN Append(s.closed, s.global_session[1])
                    ELSE s.closed)
       ELSE [s EXCEPT !.session_started = FALSE, !.closes = @ + 1]

\* close_session(session_id), after get_global_session() has returned value:
\* .bqclient of None is an AttributeError; otherwise the tables of the
\* session id are deleted.
close_session_by_id(s, t, value, session_id) ==
    IF value = <<>>
    THEN [s EXCEPT !.thread[t].pc = "idle",
                   !.thread[t].ret = Raised("'NoneType' object has no attribute 'bqclient'")]
    ELSE [s EXCEPT !.thread[t].pc = "idle",
                   !.thread[t].ret = Returned(<<>>),
                   !.cleaned = @ \cup {session_id}]

\* ------------------------------------------------------------------- state
VARIABLES
    node,      \* the node the caller holds
    prev,      \* the node the last transformation was applied to
    last,      \* the last transformation: its name, arguments and outcome
    guid,      \* the next unused guid / table identity
    steps,     \* transformations applied so far
    budget,    \* transformations this run may apply
    mem,       \* the objects of the process: list and tuple cells, node
               \* objects and the builder the caller holds
    out,       \* what the last query of the node returned: a relation, a
               \* column, or the error it raised
    sess       \* the module state of global_session and the threads calling it

vars == <<node, prev, last, guid, steps, budget, mem, out, sess>>

\* No query made yet; no session module in use.
NoOutput == [kind |-> "none"]
NoSession == [kind |-> "none"]

\* ------------------------------------------------------------------ inputs
\* Row i of the source data: a unique key k, a nullable integer a, two array
\* columns and the offsets from_pandas assigns.
APattern(i) == <<0, 1, Null>>[((i - 1) % 3) + 1]
ArrayOfLen(len) == [j \in 1..len |-> j]
SourceRow(i, xs, ys) ==
    [c \in {"k", "a", "xs", "ys", ORDER_ID_COLUMN} |->
       CASE c = "k" -> i - 1
         [] c = "a" -> APattern(i)
         [] c = "xs" -> xs
         [] c = "ys" -> ys
         [] c = ORDER_ID_COLUMN -> i - 1]

SourceColumns == <<"k", "a", "xs", "ys">>

SourceTable(rows) ==
    Table(0, Append(SourceColumns, ORDER_ID_COLUMN), {"xs", "ys"}, rows)

\* The table whose array lengths follow a fixed pattern.
PatternTable(nrows) ==
    SourceTable([i \in 1..nrows |->
                   SourceRow(i, ArrayOfLen(MaxLen - ((i - 1) % (MaxLen + 1))),
                             ArrayOfLen((i - 1) % (MaxLen + 1)))])

\* Tables with every combination of lengths of xs up to MaxLen.
ArrayTables ==
    UNION {{SourceTable([i \in 1..nrows |->
                           SourceRow(i, ArrayOfLen(lens[i]),
                                     ArrayOfLen((i - 1) % (MaxLen + 1)))]) :
              lens \in [1..nrows -> 0..MaxLen]} : nrows \in 1..MaxRows}

\* OrderedIR.from_pandas: the data columns visible, the offsets hidden and
\* the only ordering key.
from_pandas(table) ==
    OrderedIR(table, TableColumns(SourceColumns), TableColumns(<<ORDER_ID_COLUMN>>),
              ExpressionOrdering(<<ascending_over(ORDER_ID_COLUMN)>>, {ORDER_ID_COLUMN},
                                 IntegerEncoding(FALSE, FALSE)),
              <<>>)

\* A node ordered by a visible column that is unique, as the constructor
\* calls of aggregate and row_count build.
KeyedNode(table) ==
    OrderedIR(table, TableColumns(SourceColumns), <<>>,
              ExpressionOrdering(<<ascending_over("k")>>, {"k"},
                                 IntegerEncoding(FALSE, FALSE)),
              <<>>)

\* A node sorted by a, descending with NULL first, the offsets breaking ties.
SortedNode(table) ==
    OrderedIR(table, TableColumns(SourceColumns), TableColumns(<<ORDER_ID_COLUMN>>),
              ExpressionOrdering(<<OrderingExpression(Var("a"), FALSE, FALSE),
                                   ascending_over(ORDER_ID_COLUMN)>>,
                                 {ORDER_ID_COLUMN}, IntegerEncoding(FALSE, FALSE)),
              <<>>)

UnorderedNode(table) == UnorderedIR(table, TableColumns(SourceColumns), <<>>)

Constructions(table) == {from_pandas(table), KeyedNode(table), UnorderedNode(table)}

\* A node constructed with a pending predicate.
WithPredicate(n, p) == [n EXCEPT !.predicates = <<p>>]

ExplodeConstructions(table) ==
    LET plain == {from_pandas(table), KeyedNode(table), SortedNode(table),
                  UnorderedNode(table)}
    IN plain \cup {WithPredicate(n, Op1("pos", Col("a"))) : n \in plain}

NoOp == [op |-> "init", arg |-> <<>>, ok |-> TRUE, err |-> ""]

\* Integer columns of a node's table, for the values a caller can build.
IntColumns(n) == {c \in Range(n.table.columns) : c \notin n.table.arrays}

PredicateInputs == {Op1("pos", Var("a")), Op1("notnull", Var("a")), Op1("pos", Var("zz"))}

ValueInputs(n) ==
    {Lit(0)} \cup {Op1("neg", Col(c)) : c \in IntColumns(n) \cap {"a"}}

IdInputs == {"k", "a", "new", ORDER_ID_COLUMN}

ProjectionInputs ==
    {<<<<Var("k"), "k">>, <<Op1("neg", Var("a")), "a">>>>,
     <<<<Var("a"), "x">>, <<Var("k"), "x">>>>,
     <<<<Lit(0), "k">>, <<Var("xs"), "xs">>>>,
     <<<<Var("zz"), "k">>>>}

SelectInputs(n) ==
    {<<Named("a", Col(c))>> : c \in IntColumns(n) \cap {"k"}}
    \cup {<<Named("k", Col(c)), Named("k", Lit(0))>> : c \in IntColumns(n) \cap {"a"}}
    \cup {<<Named(ORDER_ID_COLUMN, Lit(0))>>, <<>>}

OrderByInputs ==
    {<<OrderingExpression(Var("a"), TRUE, TRUE)>>,
     <<OrderingExpression(Var("k"), FALSE, FALSE)>>,
     <<OrderingExpression(Op1("neg", Var("a")), TRUE, FALSE)>>,
     <<OrderingExpression(Var("zz"), TRUE, TRUE)>>}

ExplodeInputs == {<<"xs">>, <<"ys">>, <<"xs", "ys">>}

PromoteInputs == {"off", "k"}

\* project_window_op arguments: a running count and a running maximum in
\* the node's own order, a grouped maximum, a window with explicit order.
WindowInputs ==
    {[column_name |-> "a", op |-> max_op,
      window_spec |-> WindowSpec(<<>>, <<>>, Null, 0, 0),
      output_name |-> "", never_skip_nulls |-> FALSE, skip_reproject_unsafe |-> FALSE],
     [column_name |-> "a", op |-> count_op,
      window_spec |-> WindowSpec(<<>>, <<>>, Null, 0, 2),
      output_name |-> "k", never_skip_nulls |-> FALSE, skip_reproject_unsafe |-> TRUE],
     [column_name |-> "k", op |-> max_op,
      window_spec |-> WindowSpec(<<"a">>, <<>>, Null, Null, 1),
      output_name |-> "w", never_skip_nulls |-> TRUE, skip_reproject_unsafe |-> FALSE],
     [column_name |-> "a", op |-> max_op,
      window_spec |-> WindowSpec(<<>>, <<OrderingExpression(Var("k"), FALSE, TRUE)>>, 1, 0, 0),
      output_name |-> ORDER_ID_COLUMN, never_skip_nulls |-> FALSE,
      skip_reproject_unsafe |-> TRUE],
     [column_name |-> "zz", op |-> count_op,
      window_spec |-> WindowSpec(<<>>, <<>>, Null, 0, 0),
      output_name |-> "", never_skip_nulls |-> FALSE, skip_reproject_unsafe |-> FALSE]}

\* Source data of aggregate: a unique key k and two nullable columns a and b,
\* in every combination of their values, so that group keys repeat and are
\* NULL in one or in both grouping columns.
AggregateColumns == <<"k", "a", "b">>

AggregateTables ==
    UNION {{Table(0, AggregateColumns, {},
                  [i \in 1..nrows |->
                     [c \in Range(AggregateColumns) |->
                        CASE c = "k" -> i - 1
                          [] c = "a" -> as[i]
                          [] c = "b" -> bs[i]]]) :
              as \in [1..nrows -> {1, Null}], bs \in [1..nrows -> {0, Null}]} :
           nrows \in 1..MaxAggRows}

\* aggregate arguments: a maximum and a count, grouped by one column, by two,
\* by none, by an unknown column.
AggregateInputs ==
    {[aggregations |-> <<<<[op |-> max_op, arg |-> Var("k")], "m">>,
                         <<[op |-> count_op, arg |-> Var("a")], "c">>>>,
      by_column_ids |-> by, dropna |-> dropna] :
       by \in {<<"a">>, <<"a", "b">>, <<>>, <<"zz">>}, dropna \in BOOLEAN}

\* col_id_overrides: none, a visible column renamed, renamed to the id of
\* another column, a column the node does not have.
OverrideInputs == {<<>>, ("a" :> "x"), ("k" :> "a"), ("zz" :> "y")}

\* An Optional[str] argument: None, the empty string, a name.
OptionalInputs == {<<>>, <<"">>, <<"off">>}

\* Tables of one to MaxWindowRows rows whose column a holds 0, 1 or NULL.
WindowTables ==
    UNION {{Table(0, <<"k", "a", ORDER_ID_COLUMN>>, {},
                  [i \in 1..nrows |->
                     [col \in {"k", "a", ORDER_ID_COLUMN} |->
                        IF col = "a" THEN vals[i] ELSE i - 1]]) :
              vals \in [1..nrows -> {0, 1, Null}]} : nrows \in 1..MaxWindowRows}

\* from_pandas of a table of WindowTables.
WindowNode(table) ==
    OrderedIR(table, TableColumns(<<"k", "a">>), TableColumns(<<ORDER_ID_COLUMN>>),
              ExpressionOrdering(<<ascending_over(ORDER_ID_COLUMN)>>, {ORDER_ID_COLUMN},
                                 IntegerEncoding(TRUE, TRUE)),
              <<>>)

\* Window operations over column a: an operator that skips NULLs and one
\* that does not, cumulative and rolling frames, min_periods unset (0) and
\* set.
MinPeriodsInputs == {0, 2, 3}
FrameInputs == {Null, 1, 2}
RollingInputs ==
    {[column_name |-> "a", op |-> op,
      window_spec |-> WindowSpec(<<>>, <<>>, preceding, 0, min_periods),
      output_name |-> output_name, never_skip_nulls |-> never_skip_nulls,
      skip_reproject_unsafe |-> skip] :
        op \in {max_op, count_op}, preceding \in FrameInputs,
        min_periods \in MinPeriodsInputs, output_name \in {"", "w"},
        never_skip_nulls \in BOOLEAN, skip \in BOOLEAN}

\* Ids looked up: visible ids, the hidden ordering id, an id of no column.
LookupInputs == {"k", "a", ORDER_ID_COLUMN, "zz"}

\* The emission modes of an ordered node.
OrderingModes == {"string_encoded", "offset_col", "unordered"}

\* Order ids next to which every id is put: the smallest, the largest, and
\* ids with more digits or fewer.
ProbeIds == {0, 10, 1000, MaxOrderId}

\* A table of two rows whose ordering ids are i and j.
OrderIdTable(i, j) ==
    Table(0, <<"k", ORDER_ID_COLUMN>>, {},
          <<[c \in {"k", ORDER_ID_COLUMN} |-> IF c = "k" THEN 0 ELSE i],
            [c \in {"k", ORDER_ID_COLUMN} |-> IF c = "k" THEN 1 ELSE j]>>)

\* Nodes ordered by their ordering id alone: the id an integer without
\* encoding (row numbers have to be computed), an encoded integer that is
\* not sequential (as a filter leaves it), or the order string an earlier
\* string-encoded emission produced.
OrderIdNodes(i, j) ==
    LET Node(table, enc, string_encoded) ==
            OrderedIR(table, TableColumns(<<"k">>), TableColumns(<<ORDER_ID_COLUMN>>),
                      [ExpressionOrdering(<<ascending_over(ORDER_ID_COLUMN)>>,
                                          {ORDER_ID_COLUMN}, enc)
                          EXCEPT !.string_encoded = string_encoded],
                      <<>>)
    IN {Node(OrderIdTable(i, j), IntegerEncoding(FALSE, FALSE), FALSE),
        Node(OrderIdTable(i, j), IntegerEncoding(TRUE, FALSE), FALSE),
        Node(OrderIdTable(LPad(Digits(i), OrderStringLength, 0),
                          LPad(Digits(j), OrderStringLength, 0)),
             IntegerEncoding(FALSE, FALSE), TRUE)}

\* The rows a sampling filter may let through: the filter decides freely
\* on the first MaxRows rows and lets the others through.
SampleInputs(n) ==
    {kept \cup {i \in DOMAIN n.table.rows : i > MaxRows} :
       kept \in SUBSET {i \in DOMAIN n.table.rows : i <= MaxRows}}

\* Whether the ordering of a node leaves two of its rows tied.
HasTies(n) ==
    LET ord == ibis_order(n)
        id == [i \in DOMAIN n.table.rows |-> i]
        KeyVal(k, i) == Eval(ord[k].e, n.table.rows, i, id)
    IN \E i, j \in DOMAIN n.table.rows :
          i # j /\ \A k \in DOMAIN ord : KeyVal(k, i) = KeyVal(k, j)

\* The ranks SQL may give to tied rows: any, when the ordering has ties.
TieBreaks(n) ==
    IF IsOrdered(n) /\ HasTies(n)
    THEN {tb \in [DOMAIN n.table.rows -> DOMAIN n.table.rows] :
            \A i, j \in DOMAIN tb : i # j => tb[i] # tb[j]}
    ELSE {[i \in DOMAIN n.table.rows |-> i]}

\* Guids one transformation of a node may consume.
GuidsUsed(n) == Cardinality(OrderingColIds(n.ordering)) + Len(n.ordering.ordering_value_columns) + 2

\* ----------------------------------------------------------------- actions
\* The caller applies one transformation: it gets a new node, or the
\* transformation raises and the caller is left with the node it had.
Apply(opname, arg, result) ==
    /\ steps < budget
    /\ prev' = node
    /\ node' = IF IsErr(result) THEN node ELSE result
    /\ last' = [op |-> opname, arg |-> arg, ok |-> ~IsErr(result),
                err |-> IF IsErr(result) THEN result.msg ELSE ""]
    /\ guid' = guid + GuidsUsed(node)
    /\ steps' = steps + 1
    /\ UNCHANGED <<budget, mem, out, sess>>

Filter ==
    /\ IsOrdered(node)
    /\ \E p \in PredicateInputs : Apply("filter", p, OrderedIR_filter(node, p))

Projection ==
    /\ IsOrdered(node)
    /\ \E pairs \in ProjectionInputs, tb \in TieBreaks(node) :
          Apply("projection", pairs, OrderedIR_projection(node, pairs, tb, guid))

Select ==
    /\ IsOrdered(node)
    /\ \E values \in SelectInputs(node) :
          Apply("_select", values, OrderedIR_select(node, values, guid))

SetOrReplace ==
    /\ IsOrdered(node)
    /\ \E id \in IdInputs, v \in ValueInputs(node) :
          Apply("_set_or_replace_by_id", [id |-> id, value |-> v],
                OrderedIR_set_or_replace_by_id(node, id, v, guid))

HideColumn ==
    /\ IsOrdered(node)
    /\ \E id \in IdInputs :
          Apply("_hide_column", id, OrderedIR_hide_column(node, id, guid))

OrderBy ==
    /\ IsOrdered(node)
    /\ \E by \in OrderByInputs : Apply("order_by", by, OrderedIR_order_by(node, by))

Reversed ==
    /\ IsOrdered(node)
    /\ Apply("reversed", <<>>, OrderedIR_reversed(node))

UniformSampling ==
    /\ IsOrdered(node)
    /\ \E keep \in SampleInputs(node), tb \in TieBreaks(node) :
          Apply("_uniform_sampling", keep, OrderedIR_uniform_sampling(node, keep, tb, guid))

Explode ==
    /\ IsOrdered(node)
    /\ \E cols \in ExplodeInputs, tb \in TieBreaks(node) :
          Apply("explode", cols, OrderedIR_explode(node, cols, tb, guid))

PromoteOffsets ==
    /\ IsOrdered(node)
    /\ \E col_id \in PromoteInputs, tb \in TieBreaks(node) :
          Apply("promote_offsets", col_id, OrderedIR_promote_offsets(node, col_id, tb, guid))

ProjectWindowOp ==
    /\ IsOrdered(node)
    /\ \E w \in WindowInputs, tb \in TieBreaks(node) :
          Apply("project_window_op", w,
                OrderedIR_project_window_op(node, w.column_name, w.op, w.window_spec,
                                            w.output_name, w.never_skip_nulls,
                                            w.skip_reproject_unsafe, tb, guid))

ProjectOffsets ==
    /\ IsOrdered(node)
    /\ \E tb \in TieBreaks(node) :
          Apply("_project_offsets", <<>>, OrderedIR_project_offsets(node, tb, guid))

ReprojectToTable ==
    /\ IsOrdered(node)
    /\ \E tb \in TieBreaks(node) :
          Apply("_reproject_to_table", <<>>, OrderedIR_reproject_to_table(node, tb, guid))

BakeOrdering ==
    /\ IsOrdered(node)
    /\ Apply("_bake_ordering", <<>>, OrderedIR_bake_ordering(node, guid))

ToUnordered ==
    /\ IsOrdered(node)
    /\ Apply("to_unordered", <<>>, OrderedIR_to_unordered(node))

UFilter ==
    /\ IsUnordered(node)
    /\ \E p \in PredicateInputs : Apply("filter", p, UnorderedIR_filter(node, p))

UProjection ==
    /\ IsUnordered(node)
    /\ \E pairs \in ProjectionInputs, tb \in TieBreaks(node) :
          Apply("projection", pairs, UnorderedIR_projection(node, pairs, tb, guid))

USelect ==
    /\ IsUnordered(node)
    /\ \E values \in SelectInputs(node) :
          Apply("_select", values, UnorderedIR_select(node, values))

USetOrReplace ==
    /\ IsUnordered(node)
    /\ \E id \in IdInputs, v \in ValueInputs(node) :
          Apply("_set_or_replace_by_id", [id |-> id, value |-> v],
                UnorderedIR_set_or_replace_by_id(node, id, v))

UUniformSampling ==
    /\ IsUnordered(node)
    /\ \E keep \in SampleInputs(node), tb \in TieBreaks(node) :
          Apply("_uniform_sampling", keep, UnorderedIR_uniform_sampling(node, keep, tb, guid))

UExplode ==
    /\ IsUnordered(node)
    /\ \E cols \in ExplodeInputs, tb \in TieBreaks(node) :
          Apply("explode", cols, UnorderedIR_explode(node, cols, tb, guid))

UReprojectToTable ==
    /\ IsUnordered(node)
    /\ \E tb \in TieBreaks(node) :
          Apply("_reproject_to_table", <<>>, UnorderedIR_reproject_to_table(node, tb, guid))

\* The caller asks the node it holds for something: the node stays as it
\* is, the answer (or the error raised) is what the caller gets.
Query(opname, arg, result) ==
    /\ steps < budget
    /\ out' = result
    /\ prev' = node
    /\ last' = [op |-> opname, arg |-> arg, ok |-> ~IsErr(result),
                err |-> IF IsErr(result) THEN result.msg ELSE ""]
    /\ guid' = guid + GuidsUsed(node)
    /\ steps' = steps + 1
    /\ UNCHANGED <<node, budget, mem, sess>>

UToSql ==
    /\ IsUnordered(node)
    /\ \E offset_column \in OptionalInputs, overrides \in OverrideInputs,
          sorted \in BOOLEAN, tb \in TieBreaks(node) :
          Query("to_sql",
                [offset_column |-> offset_column, col_id_overrides |-> overrides,
                 sorted |-> sorted],
                UnorderedIR_to_sql(node, offset_column, overrides, sorted, tb, guid))

ToSql ==
    /\ IsOrdered(node)
    /\ \E overrides \in OverrideInputs, sorted \in BOOLEAN, tb \in TieBreaks(node) :
          Query("to_sql", [col_id_overrides |-> overrides, sorted |-> sorted],
                OrderedIR_to_sql(node, overrides, sorted, tb, guid))

ToIbisExpr ==
    /\ IsOrdered(node)
    /\ \E mode \in OrderingModes, expose \in BOOLEAN, tb \in TieBreaks(node) :
          Query("_to_ibis_expr", [ordering_mode |-> mode, expose_hidden_cols |-> expose],
                OrderedIR_to_ibis_expr(node, mode, ORDER_ID_COLUMN, expose, <<>>,
                                       DOMAIN node.table.rows, tb, guid))

RollingWindowOp ==
    /\ IsOrdered(node)
    /\ \E w \in RollingInputs :
          Apply("project_window_op", w,
                OrderedIR_project_window_op(node, w.column_name, w.op, w.window_spec,
                                            w.output_name, w.never_skip_nulls,
                                            w.skip_reproject_unsafe,
                                            [i \in DOMAIN node.table.rows |-> i], guid))

GetIbisColumn ==
    \E key \in LookupInputs :
       Query("_get_ibis_column", key, LookupColumn(node, key))

GetColumnType ==
    \E key \in LookupInputs :
       Query("get_column_type", key, get_column_type(node, key))

\* _to_ibis_expr(ordering_mode="string_encoded") of a node whose ordering
\* leaves no ties.
EncodeOrder ==
    /\ IsOrdered(node)
    /\ Query("_to_ibis_expr",
             [ordering_mode |-> "string_encoded", expose_hidden_cols |-> FALSE],
             OrderedIR_to_ibis_expr(node, "string_encoded", ORDER_ID_COLUMN, FALSE, <<>>,
                                    DOMAIN node.table.rows,
                                    [i \in DOMAIN node.table.rows |-> i], guid))

Aggregate ==
    /\ IsUnordered(node)
    /\ \E w \in AggregateInputs, tb \in TieBreaks(node) :
          Apply("aggregate", w,
                UnorderedIR_aggregate(node, w.aggregations, w.by_column_ids, w.dropna,
                                      tb, guid))

\* A step of a thread in global_session.py: only the module state changes.
SessionStep(next) ==
    /\ sess' = next
    /\ UNCHANGED <<node, prev, last, guid, steps, budget, mem, out>>

Begin(t, pc, call, skip_cleanup) ==
    /\ sess.thread[t].pc = "idle"
    /\ sess.calls < MaxCalls
    /\ SessionStep([sess EXCEPT !.calls = @ + 1,
                                !.thread[t] = [pc |-> pc, call |-> call,
                                               skip_cleanup |-> skip_cleanup,
                                               ret |-> NoReturn]])

\* A thread calls get_global_session().
CallGetGlobalSession ==
    /\ sess.kind = "session"
    /\ \E t \in Threads : Begin(t, "get_acquire", "get_global_session", FALSE)

\* A thread calls close_session(skip_cleanup=...).
CallCloseSession ==
    /\ sess.kind = "session"
    /\ \E t \in Threads, skip_cleanup \in BOOLEAN :
          Begin(t, "close_acquire", "close_session", skip_cleanup)

\* A thread calls close_session(session_id): it first calls
\* get_global_session().
CallCloseSessionById ==
    /\ sess.kind = "session"
    /\ \E t \in Threads : Begin(t, "get_acquire", "close_session_by_id", FALSE)

\* with _global_session_lock: the thread gets the lock when it is free.
AcquireLock ==
    \E t \in Threads :
       /\ sess.thread[t].pc \in {"get_acquire", "close_acquire"}
       /\ sess.lock = 0
       /\ SessionStep([sess EXCEPT !.lock = t,
                                   !.thread[t].pc =
                                      IF @ = "get_acquire" THEN "get_locked"
                                      ELSE "close_locked"])

\* get_global_session: the block under the lock, and the release.
GetLocked ==
    \E t \in Threads :
       /\ sess.thread[t].pc = "get_locked"
       /\ SessionStep([get_global_session_locked(sess) EXCEPT
                         !.lock = 0, !.thread[t].pc = "get_return"])

\* get_global_session: return _global_session, read after the lock was
\* released.
GetReturn ==
    \E t \in Threads :
       /\ sess.thread[t].pc = "get_return"
       /\ SessionStep(IF sess.thread[t].call = "close_session_by_id"
                      THEN close_session_by_id(sess, t, sess.global_session, "s1")
                      ELSE [sess EXCEPT !.thread[t].pc = "idle",
                                        !.thread[t].ret = Returned(sess.global_session)])

\* close_session(): the block under the lock, the release and the return.
CloseLocked ==
    \E t \in Threads :
       /\ sess.thread[t].pc = "close_locked"
       /\ SessionStep([close_session_locked(sess, sess.thread[t].skip_cleanup) EXCEPT
                         !.lock = 0, !.thread[t].pc = "idle",
                         !.thread[t].ret = Returned(<<>>)])

\* ----------------------------------------------------------- specification
Init ==
    /\ node \in Constructions(PatternTable(MaxRows))
    /\ prev = node
    /\ last = NoOp
    /\ guid = 1
    /\ steps = 0
    /\ budget = MaxSteps
    /\ mem = EmptyMem
    /\ out = NoOutput
    /\ sess = NoSession

Next ==
    \/ Filter \/ Projection \/ Select \/ SetOrReplace \/ HideColumn
    \/ OrderBy \/ Reversed \/ UniformSampling \/ Explode \/ PromoteOffsets
    \/ ProjectWindowOp \/ ProjectOffsets \/ ReprojectToTable \/ BakeOrdering
    \/ ToUnordered
    \/ UFilter \/ UProjection \/ USelect \/ USetOrReplace
    \/ UUniformSampling \/ UExplode \/ UReprojectToTable

Spec == Init /\ [][Next]_vars

\* Explode on source data with every combination of array lengths.
InitExplode ==
    /\ node \in UNION {ExplodeConstructions(t) : t \in ArrayTables}
    /\ prev = node
    /\ last = NoOp
    /\ guid = 1
    /\ steps = 0
    /\ budget = 1
    /\ mem = EmptyMem
    /\ out = NoOutput
    /\ sess = NoSession

NextExplode == Explode \/ UExplode

SpecExplode == InitExplode /\ [][NextExplode]_vars

\* Nodes with pending predicates, hidden columns and repeated ids, and the
\* queries a caller makes of them.
InitEmit ==
    /\ node \in Constructions(PatternTable(MaxRows))
                 \cup {SortedNode(PatternTable(MaxRows)),
                       WithPredicate(from_pandas(PatternTable(MaxRows)),
                                     Op1("pos", Col("a")))}
    /\ prev = node
    /\ last = NoOp
    /\ guid = 1
    /\ steps = 0
    /\ budget = MaxSteps
    /\ mem = EmptyMem
    /\ out = NoOutput
    /\ sess = NoSession

NextEmit ==
    \/ Filter \/ Select \/ HideColumn \/ OrderBy \/ ToUnordered
    \/ UFilter \/ USelect
    \/ UToSql \/ ToSql \/ ToIbisExpr
    \/ GetIbisColumn \/ GetColumnType

SpecEmit == InitEmit /\ [][NextEmit]_vars

\* Longer runs of the transformations that read or change the offsets of a
\* node and the encoding of its ordering.
MaxOffsetSteps == 3

InitOffsets ==
    /\ node \in Constructions(PatternTable(MaxRows))
    /\ prev = node
    /\ last = NoOp
    /\ guid = 1
    /\ steps = 0
    /\ budget = MaxOffsetSteps
    /\ mem = EmptyMem
    /\ out = NoOutput
    /\ sess = NoSession

NextOffsets ==
    \/ Filter \/ OrderBy \/ Reversed \/ UniformSampling
    \/ PromoteOffsets \/ ProjectOffsets

SpecOffsets == InitOffsets /\ [][NextOffsets]_vars

\* One window operation over a node built from a table of WindowTables.
InitWindow ==
    /\ node \in {WindowNode(t) : t \in WindowTables}
    /\ prev = node
    /\ last = NoOp
    /\ guid = 1
    /\ steps = 0
    /\ budget = 1
    /\ mem = EmptyMem
    /\ out = NoOutput
    /\ sess = NoSession

NextWindow == RollingWindowOp

SpecWindow == InitWindow /\ [][NextWindow]_vars

\* String-encoded emission of nodes whose ordering ids are any id up to
\* MaxOrderId and its successor or one of the probe ids.
InitEncode ==
    /\ \E i \in 0..MaxOrderId :
          \E j \in (({i + 1} \cap (0..MaxOrderId)) \cup ProbeIds) \ {i} :
             node \in OrderIdNodes(i, j)
    /\ prev = node
    /\ last = NoOp
    /\ guid = 1
    /\ steps = 0
    /\ budget = 1
    /\ mem = EmptyMem
    /\ out = NoOutput
    /\ sess = NoSession

NextEncode == EncodeOrder

SpecEncode == InitEncode /\ [][NextEncode]_vars

\* Aggregation of source data with repeated and NULL keys, after a filter
\* or without one.
InitAggregate ==
    /\ node \in {UnorderedIR(t, TableColumns(AggregateColumns), <<>>) :
                   t \in AggregateTables}
    /\ prev = node
    /\ last = NoOp
    /\ guid = 1
    /\ steps = 0
    /\ budget = 2
    /\ mem = EmptyMem
    /\ out = NoOutput
    /\ sess = NoSession

NextAggregate == UFilter \/ Aggregate

SpecAggregate == InitAggregate /\ [][NextAggregate]_vars

\* Threads calling get_global_session and close_session, interleaved at the
\* lock and at the return.
InitSession ==
    /\ node = UnorderedNode(PatternTable(1))
    /\ prev = node
    /\ last = NoOp
    /\ guid = 1
    /\ steps = 0
    /\ budget = 0
    /\ mem = EmptyMem
    /\ out = NoOutput
    /\ sess = ModuleState

NextSession ==
    \/ CallGetGlobalSession \/ CallCloseSession \/ CallCloseSessionById
    \/ AcquireLock \/ GetLocked \/ GetReturn \/ CloseLocked

SpecSession == InitSession /\ [][NextSession]_vars

\* ------------------------------------------------- nodes and builders held
\* The caller holds node objects and at most one builder; it obtains a
\* builder from a node, mutates the builder's lists in place or rebinds its
\* fields, builds nodes from it, and transforms or emits the nodes it holds.
HeapStep(opname, arg, ok, m) ==
    /\ steps < budget
    /\ mem' = m
    /\ last' = [op |-> opname, arg |-> arg, ok |-> ok, err |-> ""]
    /\ guid' = guid + 1
    /\ steps' = steps + 1
    /\ UNCHANGED <<node, prev, budget, out, sess>>

\* The sequence fields of a builder.
BuilderLists(b) ==
    IF b.kind = "ordered" THEN {"columns", "hidden_ordering_columns", "predicates"}
    ELSE {"columns", "predicates"}

\* What a caller puts into a field of a builder.
ItemInputs(field) ==
    IF field = "predicates" THEN Op1("pos", Col("a"))
    ELSE IF field = "columns" THEN Named("k", Lit(0))
    ELSE Named("h", Col("a"))

\* Transformations of a held node n that return a node or raise.
TransformInputs(n) ==
    IF IsOrdered(n)
    THEN {[op |-> "filter", result |-> OrderedIR_filter(n, Op1("pos", Var("a")))],
          [op |-> "_hide_column", result |-> OrderedIR_hide_column(n, "k", guid)],
          [op |-> "order_by",
           result |-> OrderedIR_order_by(n, <<OrderingExpression(Var("zz"), TRUE, TRUE)>>)],
          [op |-> "reversed", result |-> OrderedIR_reversed(n)],
          [op |-> "to_unordered", result |-> OrderedIR_to_unordered(n)]}
    ELSE {[op |-> "filter", result |-> UnorderedIR_filter(n, Op1("pos", Var("a")))],
          [op |-> "_select", result |-> UnorderedIR_select(n, <<Named("a", Col("k"))>>)]}

\* b = N.builder()
MakeBuilder ==
    \E k \in DOMAIN mem.nodes :
       LET Held(r) == [mem EXCEPT !.store = r.store, !.builders = <<r.builder>>]
       IN HeapStep("builder", k, TRUE, Held(Builder_init(mem.store, mem.nodes[k], k)))

\* b.<field>.append(x): in place; a tuple has no append.
BuilderAppend ==
    /\ mem.builders # <<>>
    /\ \E field \in BuilderLists(mem.builders[1]) :
          LET ref == mem.builders[1][field]
          IN IF mem.store[ref].kind = "list"
             THEN HeapStep("append", field, TRUE,
                           [mem EXCEPT !.store[ref].items = Append(@, ItemInputs(field))])
             ELSE HeapStep("append", field, FALSE, mem)

\* b.<field>[0] = x or del b.<field>[0]: in place; a tuple refuses both.
BuilderSetItem ==
    /\ mem.builders # <<>>
    /\ \E field \in BuilderLists(mem.builders[1]), delete \in BOOLEAN :
          LET ref == mem.builders[1][field]
          IN IF mem.store[ref].kind = "list" /\ mem.store[ref].items # <<>>
             THEN HeapStep(IF delete THEN "delitem" ELSE "setitem", field, TRUE,
                           [mem EXCEPT !.store[ref].items =
                               IF delete THEN Tail(@)
                               ELSE <<ItemInputs(field)>> \o Tail(@)])
             ELSE HeapStep(IF delete THEN "delitem" ELSE "setitem", field, FALSE, mem)

\* b.columns = values, values a tuple of the caller's (as _select assigns).
BuilderAssign ==
    /\ mem.builders # <<>>
    /\ LET Bound(a) == [mem EXCEPT !.store = a.store, !.builders[1].columns = a.ref]
       IN HeapStep("assign", "columns", TRUE,
                   Bound(Allocated(mem.store, Cell("tuple", <<Named("a", Col("k"))>>))))

\* M = b.build(); the caller keeps b.
BuilderBuild ==
    /\ mem.builders # <<>>
    /\ Len(mem.nodes) < MaxNodes
    /\ LET Held(r) ==
               IF IsErr(r) THEN mem
               ELSE [mem EXCEPT !.store = r.store, !.nodes = Append(@, r.obj)]
           Step(r) == HeapStep("build", <<>>, ~IsErr(r), Held(r))
       IN Step(Builder_build(mem.store, mem.builders[1]))

\* M = f(N) for a held node N: M is a new object, or f raises.
NodeTransform ==
    /\ Len(mem.nodes) < MaxNodes
    /\ \E k \in DOMAIN mem.nodes :
          \E f \in TransformInputs(Deref(mem.store, mem.nodes[k])) :
             LET Held(r) == [mem EXCEPT !.store = r.store, !.nodes = Append(@, r.obj)]
             IN IF IsErr(f.result) THEN HeapStep(f.op, k, FALSE, mem)
                ELSE HeapStep(f.op, k, TRUE,
                              Held(ResultObject(mem.store, f.result, f.op)))

\* N._to_ibis_expr(...) / N.to_sql(): the relation is built from a list copy
\* of the columns, to which the reduced predicate is appended.
NodeEmit ==
    \E k \in DOMAIN mem.nodes :
       LET Emitting(n, c) ==
               [mem EXCEPT !.store =
                   IF HasReducedPredicate(n)
                   THEN [c.store EXCEPT ![c.ref].items = Append(@, reduced_predicate(n))]
                   ELSE c.store]
       IN HeapStep("_to_ibis_expr", k, TRUE,
                   Emitting(Deref(mem.store, mem.nodes[k]),
                            list_of(mem.store, mem.nodes[k].columns)))

InitHeap ==
    /\ node \in Constructions(PatternTable(MaxRows))
    /\ prev = node
    /\ last = NoOp
    /\ guid = 1
    /\ steps = 0
    /\ budget = MaxHeapSteps
    /\ LET Held(r) == [store |-> r.store, nodes |-> <<r.obj>>, builders |-> <<>>]
       IN mem = Held(ResultObject(<<>>, node, "init"))
    /\ out = NoOutput
    /\ sess = NoSession

NextHeap ==
    \/ MakeBuilder \/ BuilderAppend \/ BuilderSetItem \/ BuilderAssign
    \/ BuilderBuild \/ NodeTransform \/ NodeEmit

SpecHeap == InitHeap /\ [][NextHeap]_vars

\* -------------------------------------------------------------- properties
IdentityRanks(n) == [i \in DOMAIN n.table.rows |-> i]

\* Value of column c (visible or hidden) of node n in row i of its table.
NodeValue(n, c, i) == Eval(get_any_column(n, c), n.table.rows, i, IdentityRanks(n))

\* Values of the ordering keys of node n in row i of its table.
KeyValues(n, i) ==
    [k \in DOMAIN ibis_order(n) |->
       Eval(ibis_order(n)[k].e, n.table.rows, i, IdentityRanks(n))]

\* Directions and null placements of the ordering keys.
KeyDirections(n) ==
    [k \in DOMAIN n.ordering.ordering_value_columns |->
       <<n.ordering.ordering_value_columns[k].asc,
         n.ordering.ordering_value_columns[k].na_last>>]

\* Rows of the node's table that pass every pending predicate: the rows the
\* node emits.
Emitted(n) ==
    {i \in DOMAIN n.table.rows :
       \A p \in DOMAIN n.predicates :
          Eval(n.predicates[p], n.table.rows, i, IdentityRanks(n)) = SqlTrue}

\* Row i comes strictly before row j in the order the node defines.
RowBefore(n, i, j) ==
    \E k \in DOMAIN ibis_order(n) :
       /\ Precedes(ibis_order(n)[k].asc, ibis_order(n)[k].na_last,
                   KeyValues(n, i)[k], KeyValues(n, j)[k])
       /\ \A k2 \in 1..(k - 1) : KeyValues(n, i)[k2] = KeyValues(n, j)[k2]

AllIds(n) == Range(Names(n.columns)) \cup Range(Names(n.hidden_ordering_columns))

\* The last transformation replaced a visible column the ordering reads.
ReplacedOrderingColumn ==
    /\ last.op = "_set_or_replace_by_id"
    /\ IsOrdered(prev)
    /\ last.arg.id \in OrderingColIds(prev.ordering)
    /\ last.arg.id \in Range(column_ids(prev))

\* C1: hide-before-mutate.  When _set_or_replace_by_id(c, v) is applied to an
\* ordered node whose ordering reads the visible column c, it returns a node
\* over the same table whose ordering keys have, in every row, the values,
\* directions and null placements of the keys of the node it was applied to;
\* the ordering no longer reads c, the old expression of c is a hidden column
\* under an id the node did not have, and (in a node whose column ids are
\* distinct) the visible column c holds v.
C1_HideBeforeMutate ==
    ReplacedOrderingColumn =>
       /\ last.ok
       /\ IsOrdered(node)
       /\ node.table = prev.table
       /\ KeyDirections(node) = KeyDirections(prev)
       /\ \A i \in DOMAIN prev.table.rows : KeyValues(node, i) = KeyValues(prev, i)
       /\ last.arg.id \notin OrderingColIds(node.ordering)
       /\ \E h \in DOMAIN node.hidden_ordering_columns :
             /\ node.hidden_ordering_columns[h].name \notin AllIds(prev)
             /\ node.hidden_ordering_columns[h].e = get_ibis_column(prev, last.arg.id)
             /\ node.hidden_ordering_columns[h].name \in OrderingColIds(node.ordering)
       /\ IsDistinct(Names(prev.columns)) =>
             get_ibis_column(node, last.arg.id) = last.arg.value

\* A replaced ordering column whose new values differ from the old ones.
C1_Witness ==
    /\ ReplacedOrderingColumn
    /\ last.ok
    /\ Len(prev.table.rows) >= 2
    /\ \E i \in DOMAIN prev.table.rows :
          NodeValue(node, last.arg.id, i) # NodeValue(prev, last.arg.id, i)

\* C2: in every ordered node, every column id an ordering key refers to is
\* the id of a visible or of a hidden column; a transformation whose result
\* would break this raises and yields no node.
C2_OrderingResolves ==
    /\ IsOrdered(node) => OrderingColIds(node.ordering) \subseteq AllIds(node)
    /\ last.err = "Illegal ordering keys" => ~last.ok /\ node = prev

\* An order_by over an unknown column was refused by the constructor.
C2_Witness ==
    /\ last.op = "order_by"
    /\ IsOrdered(prev)
    /\ ~last.ok
    /\ last.err = "Illegal ordering keys"
    /\ ~(OrderingColIds(with_ordering_columns(prev.ordering, last.arg)) \subseteq AllIds(prev))

\* C3: in every ordered node the visible ids and the hidden ids are disjoint;
\* a transformation that would put one id in both raises and yields no node.
C3_HiddenDisjoint ==
    /\ IsOrdered(node) =>
          Range(Names(node.columns)) \cap Range(Names(node.hidden_ordering_columns)) = {}
    /\ last.err = "Keys in both hidden and exposed list" => ~last.ok /\ node = prev

\* A visible column was set under the id of a hidden column, and refused.
C3_Witness ==
    /\ IsOrdered(prev)
    /\ ~last.ok
    /\ \/ /\ last.op = "_set_or_replace_by_id"
          /\ last.arg.id \in Range(hidden_column_ids(prev))
       \/ /\ last.op = "_select"
          /\ last.err = "Keys in both hidden and exposed list"
          /\ Range(Names(last.arg)) \cap Range(hidden_column_ids(prev)) # {}

\* C4: no output id appears twice in the columns of a node: the columns are
\* as many as the distinct column ids.
C4_NoDuplicateIds ==
    Len(node.columns) = Len(column_ids(node))

\* The last transformation was a _project_offsets that returned a node.
ProjectedOffsets == last.op = "_project_offsets" /\ last.ok /\ IsOrdered(prev)

\* C6: the node _project_offsets returns has an ordering marked sequential,
\* and a second _project_offsets returns that very node (same table, columns,
\* hidden columns and ordering); applied to a node that is already
\* sequential, _project_offsets returns it as it is.
C6_OffsetIdempotence ==
    ProjectedOffsets =>
       /\ is_sequential(node.ordering)
       /\ \A tb \in TieBreaks(node) : OrderedIR_project_offsets(node, tb, guid) = node
       /\ is_sequential(prev.ordering) => node = prev

\* _project_offsets built offsets for a node that had none.
C6_Witness ==
    /\ ProjectedOffsets
    /\ ~is_sequential(prev.ordering)
    /\ node.table.id # prev.table.id
    /\ Len(node.table.rows) >= 2

\* Values of the single ordering key over the rows the node emits.
TotalOrderValues(n) ==
    {Eval(compile_expression(n, total_order_col(n.ordering).scalar_expression),
          n.table.rows, i, IdentityRanks(n)) : i \in Emitted(n)}

\* C7: in every ordered node marked sequential, the total-order column holds
\* the dense zero-based row numbers 0..k-1 of the k rows the node emits.
C7_SequentialIsDense ==
    IsOrdered(node) /\ is_sequential(node.ordering) =>
       /\ HasTotalOrderCol(node.ordering)
       /\ TotalOrderValues(node) = 0..(Cardinality(Emitted(node)) - 1)

\* The last transformation was an explode that returned a node.
Exploded == last.op = "explode" /\ last.ok

\* Rows of the exploded node that come from row i of the node it was applied
\* to: the source data gives every row its own value of k.
OutputOf(i) ==
    {j \in Emitted(node) : NodeValue(node, "k", j) = NodeValue(prev, "k", i)}

\* The row of the source node an output row comes from.
SourceOf(j) ==
    CHOOSE i \in Emitted(prev) : NodeValue(prev, "k", i) = NodeValue(node, "k", j)

\* Columns of the source node that the last explode did not explode.
NotExploded == Range(column_ids(prev)) \ Range(last.arg)

\* C8: after explode (ordered or unordered), every source row in which an
\* exploded column holds the empty array has exactly one output row; in that
\* row the exploded column is null and every column that was not exploded
\* has the value of the source row.
C8_ExplodeEmptyArray ==
    Exploded =>
       \A i \in Emitted(prev), c \in Range(last.arg) :
          NodeValue(prev, c, i) = <<>> =>
             /\ Cardinality(OutputOf(i)) = 1
             /\ \A j \in OutputOf(i) :
                   /\ NodeValue(node, c, j) = Null
                   /\ \A d \in NotExploded : NodeValue(node, d, j) = NodeValue(prev, d, i)

\* A single-column explode met an empty array next to a row with elements.
C8_Witness ==
    /\ Exploded
    /\ Len(last.arg) = 1
    /\ \E i1, i2 \in Emitted(prev) :
          /\ NodeValue(prev, last.arg[1], i1) = <<>>
          /\ Len(NodeValue(prev, last.arg[1], i2)) >= 2
          /\ Cardinality(OutputOf(i1)) = 1
          /\ Cardinality(OutputOf(i2)) >= 2

\* Length of the longest exploded array of source row i.
LongestExploded(i) ==
    SetMax({Len(NodeValue(prev, c, i)) : c \in Range(last.arg)})

\* C9: after explode of several columns, every source row has max(1, L)
\* output rows, L the length of its longest exploded array, and for every
\* position p < L one of them holds element p of every exploded array, null
\* for an array that has no element p: no element is dropped.
C9_ExplodeLongest ==
    Exploded =>
       \A i \in Emitted(prev) :
          /\ Cardinality(OutputOf(i)) = Max2(1, LongestExploded(i))
          /\ \A p \in 0..(LongestExploded(i) - 1) :
                \E j \in OutputOf(i) :
                   \A c \in Range(last.arg) :
                      NodeValue(node, c, j) = ArrayIndex(NodeValue(prev, c, i), p)

\* The id of the unnest position: the last ordering key of the exploded node.
UnnestOffsetId ==
    node.ordering.ordering_value_columns[Len(node.ordering.ordering_value_columns)]
        .scalar_expression.a

\* C10: the ordering keys of an ordered explode are the keys of the node it
\* was applied to, in their sequence, then the ascending unnest position, a
\* new hidden column that joins the total-order set.  Every output row holds
\* the array elements at its unnest position, and one output row comes before
\* another exactly when its source row came before the other's, or both come
\* from one source row and its position is the smaller: the rows of a source
\* row are adjacent, sorted by position, and source rows keep their order.
C10_ExplodeOrdering ==
    Exploded /\ IsOrdered(prev) =>
       LET keys == node.ordering.ordering_value_columns
           old == prev.ordering.ordering_value_columns
       IN /\ Len(keys) = Len(old) + 1
          /\ SubSeq(keys, 1, Len(old)) = old
          /\ keys[Len(keys)] = ascending_over(UnnestOffsetId)
          /\ UnnestOffsetId \notin AllIds(prev)
          /\ UnnestOffsetId \in Range(hidden_column_ids(node))
          /\ Range(hidden_column_ids(prev)) \subseteq Range(hidden_column_ids(node))
          /\ node.ordering.total_ordering_columns
                = prev.ordering.total_ordering_columns \cup {UnnestOffsetId}
          /\ \A j \in Emitted(node), c \in Range(last.arg) :
                NodeValue(node, c, j)
                   = ArrayIndex(NodeValue(prev, c, SourceOf(j)),
                                NodeValue(node, UnnestOffsetId, j))
          /\ \A j1, j2 \in Emitted(node) :
                RowBefore(node, j1, j2)
                   <=> \/ RowBefore(prev, SourceOf(j1), SourceOf(j2))
                       \/ /\ SourceOf(j1) = SourceOf(j2)
                          /\ NodeValue(node, UnnestOffsetId, j1)
                                < NodeValue(node, UnnestOffsetId, j2)

\* An ordered explode where the first source row in order is not the first
\* row of the table and two source rows have several elements each.
C10_Witness ==
    /\ Exploded
    /\ IsOrdered(prev)
    /\ \E i1, i2 \in Emitted(prev) :
          /\ i1 < i2
          /\ RowBefore(prev, i2, i1)
          /\ Cardinality(OutputOf(i1)) >= 2
          /\ Cardinality(OutputOf(i2)) >= 2

\* C5: every node object the process holds denotes, at every moment, the
\* node it denoted when it was constructed: its table, columns, column_ids,
\* hidden columns, predicates and ordering are the same after any
\* transformation of it returned or raised, after it was emitted, and after
\* any mutation of a builder obtained from it or used to build it.
C5_Immutability ==
    \A k \in DOMAIN mem.nodes :
       /\ Deref(mem.store, mem.nodes[k]) = mem.nodes[k].snapshot.value
       /\ ColumnIdsOf(mem.store, mem.nodes[k]) = mem.nodes[k].snapshot.column_ids

\* A builder obtained from a node was mutated in place after a node was
\* built from it: its columns are neither those of its source nor those of
\* the node built.
C5_Witness ==
    /\ mem.builders # <<>>
    /\ last.op \in {"append", "setitem", "delitem"}
    /\ last.ok
    /\ \E k \in DOMAIN mem.nodes :
          /\ mem.nodes[k].origin = "build"
          /\ Items(mem.store, mem.builders[1].columns)
                # Items(mem.store, mem.nodes[k].columns)
          /\ Items(mem.store, mem.builders[1].columns)
                # Items(mem.store, mem.nodes[mem.builders[1].source].columns)


\* The last transformation was an aggregate with grouping columns.
GroupedAggregation ==
    /\ last.op = "aggregate"
    /\ IsUnordered(prev)
    /\ Len(last.arg.by_column_ids) > 0

\* The values of the grouping columns in row i of node n.
KeyOf(n, i) ==
    [k \in DOMAIN last.arg.by_column_ids |-> NodeValue(n, last.arg.by_column_ids[k], i)]

\* The key combinations among the rows the aggregated node retains.
RetainedKeys == {KeyOf(prev, i) : i \in Emitted(prev)}

\* C11: aggregate with grouping columns that the node has returns a node that
\* emits exactly one row for each distinct combination of grouping values
\* among the rows that pass the pending predicates of the input, no two rows
\* with the same key; with dropna the combinations that hold a NULL are
\* left out, without dropna they are present.
C11_OneRowPerGroup ==
    (GroupedAggregation /\ Range(last.arg.by_column_ids) \subseteq Range(column_ids(prev))) =>
       /\ last.ok
       /\ IsOrdered(node)
       /\ {KeyOf(node, i) : i \in Emitted(node)} =
             IF last.arg.dropna
             THEN {key \in RetainedKeys : Null \notin Range(key)}
             ELSE RetainedKeys
       /\ \A i, j \in Emitted(node) : i # j => KeyOf(node, i) # KeyOf(node, j)

\* A filtered input whose retained rows repeat a key and hold a NULL key,
\* aggregated with dropna over two grouping columns.
C11_Witness ==
    /\ GroupedAggregation
    /\ last.ok
    /\ last.arg.dropna
    /\ Len(last.arg.by_column_ids) = 2
    /\ Len(prev.predicates) > 0
    /\ Emitted(prev) # DOMAIN prev.table.rows
    /\ Cardinality(RetainedKeys) < Cardinality(Emitted(prev))
    /\ \E key \in RetainedKeys : Null \in Range(key)
    /\ Cardinality(Emitted(node)) >= 1

\* C12: the node aggregate returns for grouping columns declares them as its
\* total order: total_ordering_columns is the set of grouping columns and the
\* ordering keys are the grouping columns, ascending.
C12_TotalOrderIsGroupingColumns ==
    (GroupedAggregation /\ last.ok) =>
       /\ node.ordering.total_ordering_columns = Range(last.arg.by_column_ids)
       /\ node.ordering.ordering_value_columns =
             [k \in DOMAIN last.arg.by_column_ids |->
                ascending_over(last.arg.by_column_ids[k])]


\* The last query was to_sql of an unordered node.
UnorderedToSql == last.op = "to_sql" /\ IsUnordered(node)

\* C13: to_sql of an unordered node raises its own error, whatever the node,
\* whenever sorted is true or an offset column is named, and the answer is
\* then no SQL at all; when neither is asked for, the answer is never that
\* error: it is SQL without an ORDER BY, or the error of the compilation.
C13_UnorderedNeverSorted ==
    UnorderedToSql =>
       /\ (last.arg.sorted \/ IsTruthy(last.arg.offset_column)) =>
             /\ ~last.ok
             /\ out = Err("Cannot produce sorted sql in unordered mode")
       /\ ~(last.arg.sorted \/ IsTruthy(last.arg.offset_column)) =>
             last.err # "Cannot produce sorted sql in unordered mode"
       /\ last.ok => out.kind = "sql" /\ out.order_by = <<>>

\* Sorted SQL was asked of an unordered node whose columns do not compile
\* (two of them have one id): the error is that of the request.
C13_Witness ==
    /\ UnorderedToSql
    /\ last.arg.sorted
    /\ ~IsDistinct(Names(node.columns))
    /\ IsErr(UnorderedIR_to_ibis_expr(node, FALSE, <<>>, DOMAIN node.table.rows,
                                      IdentityRanks(node), guid))
    /\ out = Err("Cannot produce sorted sql in unordered mode")


\* The last query was _to_ibis_expr of an ordered node.
EmittedIbisExpr == last.op = "_to_ibis_expr" /\ IsOrdered(node)

\* C14: _to_ibis_expr of an ordered node asked to expose the hidden columns
\* in the emission mode "offset_col" or "string_encoded" raises, and returns
\* no relation.
C14_ExposeOnlyUnordered ==
    (EmittedIbisExpr /\ last.arg.expose_hidden_cols
        /\ last.arg.ordering_mode \in {"offset_col", "string_encoded"}) =>
       /\ ~last.ok
       /\ IsErr(out)

\* s before t in the order of strings: at the first place where they differ
\* s has the smaller character, or s is a proper prefix of t.
StrLess(s, t) ==
    \/ \E k \in 1..Min2(Len(s), Len(t)) :
          s[k] < t[k] /\ \A m \in 1..(k - 1) : s[m] = t[m]
    \/ Len(s) < Len(t) /\ \A m \in 1..Len(s) : s[m] = t[m]

\* Row r1 comes before row r2 in the order of the node: by its order strings
\* when the ordering is string-encoded, by its integer key otherwise.
OrderIdBefore(r1, r2) ==
    IF is_string_encoded(node.ordering)
    THEN StrLess(node.table.rows[r1][ORDER_ID_COLUMN], node.table.rows[r2][ORDER_ID_COLUMN])
    ELSE RowBefore(node, r1, r2)

\* C18: the order strings the string-encoded emission gives to the rows of a
\* node compare, as strings, exactly as the rows compare in the order of the
\* node, for ordering ids up to MaxOrderId, in each of the three cases of
\* _create_string_ordering_column; and the strings of the integers i < j
\* themselves compare so.
C18_StringOrderPreserved ==
    (EmittedIbisExpr /\ last.arg.ordering_mode = "string_encoded" /\ last.ok) =>
       /\ DOMAIN out.rows = DOMAIN node.table.rows
       /\ \A r \in DOMAIN out.rows : Len(out.rows[r][ORDER_ID_COLUMN]) = OrderStringLength
       /\ \A r1, r2 \in DOMAIN out.rows :
             OrderIdBefore(r1, r2) <=>
                StrLess(out.rows[r1][ORDER_ID_COLUMN], out.rows[r2][ORDER_ID_COLUMN])

\* The string-encoded emission has encoded an integer-encoded ordering whose
\* two ids differ in their number of digits, the larger being MaxOrderId.
C18_Witness ==
    /\ EmittedIbisExpr /\ last.arg.ordering_mode = "string_encoded" /\ last.ok
    /\ node.ordering.integer_encoding.is_encoded
    /\ ~is_string_encoded(node.ordering)
    /\ \E r1, r2 \in DOMAIN node.table.rows :
          /\ node.table.rows[r2][ORDER_ID_COLUMN] = MaxOrderId
          /\ Len(Digits(node.table.rows[r1][ORDER_ID_COLUMN])) < Len(Digits(MaxOrderId))
          /\ StrLess(out.rows[r1][ORDER_ID_COLUMN], out.rows[r2][ORDER_ID_COLUMN])

\* A column lookup by id has been made.
LookedUp == last.op \in {"_get_ibis_column", "get_column_type"}

\* C15: a column lookup by id (and get_column_type, and the bindings of a
\* filter) succeeds exactly for the ids of column_ids; for any other id, the
\* id of a hidden ordering column included, it fails with the error that
\* lists all the valid ids, and the node is unchanged.
C15_LookupOnlyVisible ==
    /\ LookedUp =>
          /\ node = prev
          /\ last.ok <=> last.arg \in Range(column_ids(node))
          /\ last.ok /\ last.op = "_get_ibis_column" =>
                out = [kind |-> "value", e |-> DictGet(node.columns, last.arg)]
          /\ ~last.ok =>
                /\ out = ColumnNotFound(last.arg, column_ids(node))
                /\ last.err = "Column name not in set of values"
    /\ last.op = "filter" =>
          /\ last.ok <=> UnboundVariables(last.arg) \subseteq Range(column_ids(prev))
          /\ ~last.ok => node = prev

\* The lookup of the hidden ordering column of a node has failed, on a node
\* that holds that column.
C15_Witness ==
    /\ LookedUp /\ ~last.ok
    /\ IsOrdered(node)
    /\ last.arg \in Range(Names(node.hidden_ordering_columns))
    /\ Len(out.ids) > 0

\* The relation an emission has returned: the table of _to_ibis_expr, the
\* relation the text of to_sql reads.
EmittedRelation == IF out.kind = "sql" THEN out.relation ELSE out

\* An emission of the node has returned a relation with columns.
EmissionDone ==
    /\ last.op \in {"to_sql", "_to_ibis_expr"} /\ last.ok
    /\ EmittedRelation.columns # <<>>

\* The window without grouping keys and without ordering.
PlainWindowSpec == WindowSpec(<<>>, <<>>, Null, 0, 0)

EmptyReduction == "Cannot reduce empty list of predicates"

\* C16: no operation ends in the error of reducing an empty predicate list;
\* a node with no predicate has no reduced predicate, its emission keeps
\* every row, and its offset window and the windows resolved from a window
\* specification are not grouped by a predicate; a node with n >= 1
\* predicates has a reduced predicate under the reserved name that is true
\* in exactly the rows where all n predicates are true, its emission keeps
\* exactly those rows, and its windows are grouped by that predicate.
C16_ReducedPredicate ==
    /\ last.err # EmptyReduction
    /\ IsErr(out) => out.msg # EmptyReduction
    /\ Len(node.predicates) = 0 =>
          /\ ~HasReducedPredicate(node)
          /\ EmissionDone => Len(EmittedRelation.rows) = Len(node.table.rows)
          /\ IsOrdered(node) =>
                /\ OffsetWindow(node).group_by = <<>>
                /\ ibis_window_from_spec(node, PlainWindowSpec, FALSE).group_by = <<>>
    /\ Len(node.predicates) >= 1 =>
          /\ HasReducedPredicate(node)
          /\ reduced_predicate(node).name = PREDICATE_COLUMN
          /\ \A i \in DOMAIN node.table.rows :
                (Eval(reduced_predicate(node).e, node.table.rows, i, IdentityRanks(node))
                    = SqlTrue) <=> i \in Emitted(node)
          /\ EmissionDone => Len(EmittedRelation.rows) = Cardinality(Emitted(node))
          /\ IsOrdered(node) =>
                /\ OffsetWindow(node).group_by = <<reduced_predicate(node).e>>
                /\ ibis_window_from_spec(node, PlainWindowSpec, FALSE).group_by
                      = <<reduced_predicate(node).e>>

\* A node with two predicates, the last of which is true in a row where the
\* first is not, has been emitted.
C16_Witness ==
    /\ EmissionDone
    /\ Len(node.predicates) = 2
    /\ \E i \in DOMAIN node.table.rows \ Emitted(node) :
          Eval(node.predicates[2], node.table.rows, i, IdentityRanks(node)) = SqlTrue

\* A window operation has given the node a new column.
WindowOpDone == last.op = "project_window_op" /\ last.ok /\ IsOrdered(node)

\* The rows of the window of row i: the rows from i - preceding (from the
\* first row when preceding is unbounded) to i, in the order of the source.
WindowOf(i) ==
    {j \in DOMAIN prev.table.rows :
       /\ j <= i
       /\ last.arg.window_spec.preceding = Null
             \/ j >= i - last.arg.window_spec.preceding}

SourceValue(j) == NodeValue(prev, last.arg.column_name, j)

\* The observations of the window of row i that count towards min_periods.
Observations(i) ==
    IF last.arg.op.skips_nulls
    THEN {j \in WindowOf(i) : SourceValue(j) # Null}
    ELSE WindowOf(i)

\* The analytic value of the operator over the window of row i.
AnalyticValue(i) ==
    LET present == {SourceValue(j) : j \in WindowOf(i)} \ {Null}
    IN IF last.arg.op.name = "count"
       THEN Cardinality({j \in WindowOf(i) : SourceValue(j) # Null})
       ELSE IF present = {} THEN Null ELSE SetMax(present)

\* The value of the output column of the window operation in row i.
WindowResult(i) ==
    NodeValue(node,
              IF last.arg.output_name # "" THEN last.arg.output_name
              ELSE last.arg.column_name,
              i)

\* C17: the output of project_window_op in a row is NULL if the operator
\* skips NULLs, never_skip_nulls is false and the source value of the row is
\* NULL, or if min_periods is set and the window of the row has fewer
\* observations than min_periods (the non-null source values when the
\* operator skips NULLs, all rows otherwise); in every other case it is the
\* analytic value.
C17_WindowNulls ==
    WindowOpDone =>
       \A i \in DOMAIN prev.table.rows :
          WindowResult(i) =
             IF \/ /\ last.arg.op.skips_nulls
                   /\ ~last.arg.never_skip_nulls
                   /\ SourceValue(i) = Null
                \/ /\ last.arg.window_spec.min_periods # 0
                   /\ Cardinality(Observations(i)) < last.arg.window_spec.min_periods
             THEN Null
             ELSE AnalyticValue(i)

\* With min_periods = 3 and an operator that skips NULLs, one row whose
\* window holds three rows and two non-null values got NULL, and did so
\* though its own value is not NULL.
C17_Witness ==
    /\ WindowOpDone
    /\ last.arg.window_spec.min_periods = 3
    /\ last.arg.op.skips_nulls
    /\ \E i \in DOMAIN prev.table.rows :
          /\ Cardinality(WindowOf(i)) = 3
          /\ Cardinality(Observations(i)) = 2
          /\ SourceValue(i) # Null
          /\ WindowResult(i) = Null

\* to_sql(sorted=False) of the node has returned its text.
UnsortedSql == last.op = "to_sql" /\ ~last.arg.sorted /\ last.ok

\* The id a visible column is emitted under.
EmittedId(c) ==
    IF c \in DOMAIN last.arg.col_id_overrides THEN last.arg.col_id_overrides[c] ELSE c

\* The relation of the visible columns of the node, renamed, over the rows
\* that satisfy all its predicates.
VisibleRelation(rel) ==
    LET ids == column_ids(node)
        passing == SeqOfSet(Emitted(node))
    IN /\ rel.columns = [k \in DOMAIN ids |-> EmittedId(ids[k])]
       /\ DOMAIN rel.rows = DOMAIN passing
       /\ \A r \in DOMAIN rel.rows : \A c \in Range(ids) :
             rel.rows[r][EmittedId(c)] = NodeValue(node, c, passing[r])

\* C19: the relation emitted by to_sql(sorted=False) has exactly the visible
\* columns of the node, in order, each under its override if it has one,
\* holds exactly the rows that satisfy all pending predicates, and holds
\* neither the reserved predicate column nor a hidden ordering column.
C19_UnsortedEmission ==
    UnsortedSql =>
       /\ VisibleRelation(out.relation)
       /\ PREDICATE_COLUMN \notin Range(out.relation.columns)
       /\ IsOrdered(node) =>
             \A h \in Range(hidden_column_ids(node)) :
                h \in Range(out.relation.columns) => h \in Range(column_ids(node))

\* The same for nodes that have a visible column.
UnsortedEmissionWithColumns ==
    (UnsortedSql /\ Len(node.columns) > 0) => VisibleRelation(out.relation)

\* C20: no call of get_global_session returns None, whatever the
\* interleaving with the calls of other threads.
C20_GetNeverNone ==
    sess.kind = "session" =>
       \A t \in Threads :
          (sess.thread[t].call = "get_global_session"
              /\ sess.thread[t].ret.kind = "returned") =>
             sess.thread[t].ret.value # <<>>

\* Thread t runs the locked block of close_session() in this step.
ClosesNow(t) ==
    sess.thread[t].pc = "close_locked" /\ sess'.thread[t].pc = "idle"

\* Thread t runs the locked block of get_global_session in this step.
GetsNow(t) ==
    sess.thread[t].pc = "get_locked" /\ sess'.thread[t].pc = "get_return"

\* C21: close_session() clears the global reference and resets the
\* session-started flag in every case; it closes the default session once
\* when there is one and skip_cleanup is false, and closes nothing
\* otherwise; no session is closed twice; and the get_global_session that
\* finds the reference cleared creates a session that is none of the
\* sessions created before, so none of the closed ones.
C21_CloseSession ==
    [][\A t \in Threads :
          /\ ClosesNow(t) =>
                /\ sess'.global_session = <<>>
                /\ ~sess'.session_started
                /\ sess'.connected = sess.connected
                /\ sess'.closed =
                      IF sess.global_session # <<>> /\ ~sess.thread[t].skip_cleanup
                      THEN Append(sess.closed, sess.global_session[1])
                      ELSE sess.closed
                /\ IsDistinct(sess'.closed)
          /\ (GetsNow(t) /\ sess.global_session = <<>>) =>
                /\ sess'.global_session # <<>>
                /\ sess'.global_session[1] > sess.connected
                /\ sess'.global_session[1] \notin Range(sess'.closed)
                /\ sess'.closed = sess.closed]_vars

\* A default session was closed and cleared, and a get_global_session after
\* that created the second session.
C21_Witness ==
    /\ sess.kind = "session"
    /\ sess.closed = <<1>>
    /\ sess.global_session = <<2>>
    /\ sess.session_started

\* C22: no step of a call close_session(session_id) changes the global
\* session reference or the session-started flag, and none creates or
\* closes a session.
C22_CloseByIdKeepsDefault ==
    [][\A t \in Threads :
          (sess.thread[t].call = "close_session_by_id" /\ sess.thread[t].pc # "idle"
              /\ sess'.thread[t] # sess.thread[t]) =>
             /\ sess'.global_session = sess.global_session
             /\ sess'.session_started = sess.session_started
             /\ sess'.connected = sess.connected
             /\ sess'.closed = sess.closed]_vars

\* C29: as long as no close_session() has run, connect is called at most
\* once and every get_global_session that has returned has returned that
\* one session; and the sessions created are never more than one more than
\* the close_session() calls that have run.
C29_SingleCreation ==
    sess.kind = "session" =>
       /\ sess.connected <= sess.closes + 1
       /\ sess.closes = 0 =>
             /\ sess.connected <= 1
             /\ \A t \in Threads :
                   (sess.thread[t].call = "get_global_session"
                       /\ sess.thread[t].ret.kind = "returned") =>
                      /\ sess.connected = 1
                      /\ sess.thread[t].ret.value = <<1>>

\* Two threads have both got the one session from get_global_session, and
\* no close_session() has run.
C29_Witness ==
    /\ sess.kind = "session"
    /\ sess.closes = 0
    /\ sess.connected = 1
    /\ \E t1, t2 \in Threads :
          /\ t1 # t2
          /\ \A t \in {t1, t2} :
                /\ sess.thread[t].call = "get_global_session"
                /\ sess.thread[t].ret = Returned(<<1>>)

\* project_window_op has returned a node, for an input whose visible
\* columns have distinct ids.
WindowProjected ==
    /\ last.op = "project_window_op" /\ last.ok /\ IsOrdered(node)
    /\ IsDistinct(Names(prev.columns))

\* The result of the same call without the reprojection.
Unflattened ==
    OrderedIR_project_window_op(prev, last.arg.column_name, last.arg.op,
                                last.arg.window_spec, last.arg.output_name,
                                last.arg.never_skip_nulls, TRUE,
                                IdentityRanks(prev), guid - GuidsUsed(prev))

\* The id of the output column of the window operation.
WindowOutputId ==
    IF last.arg.output_name # "" THEN last.arg.output_name ELSE last.arg.column_name

\* Every column of cols is a direct reference to a column of table.
DirectReferences(cols, table) ==
    \A k \in DOMAIN cols :
       cols[k].e = Col(cols[k].name) /\ cols[k].name \in Range(table.columns)

\* The window values of the rows of prev that pass its predicates, under
\* the ranks tb of tied rows.
WindowValues(tb) ==
    LET passing == SeqOfSet(Emitted(prev))
        Value(e) == [r \in DOMAIN passing |-> Eval(e, prev.table.rows, passing[r], tb)]
    IN Value(WindowOpValue(prev, last.arg.column_name, last.arg.op,
                           last.arg.window_spec, last.arg.never_skip_nulls))

\* C23: project_window_op without skip_reproject_unsafe returns a flattened
\* node: a fresh backing table, every visible and hidden column a direct
\* reference to a column of it, no pending predicate, the column_ids and the
\* ordering of the unflattened result and its hidden columns that the
\* ordering uses; with skip_reproject_unsafe it returns the unflattened
\* result, on the table and with the predicates of the input.  In both cases
\* the output column holds the window result, under output_name or else
\* under the id of the input column.
C23_WindowReprojects ==
    WindowProjected =>
       /\ WindowOutputId \in Range(column_ids(node))
       /\ IF last.arg.skip_reproject_unsafe
          THEN /\ node = Unflattened
               /\ node.table = prev.table
               /\ node.predicates = prev.predicates
               /\ get_ibis_column(node, WindowOutputId)
                     = WindowOpValue(prev, last.arg.column_name, last.arg.op,
                                     last.arg.window_spec, last.arg.never_skip_nulls)
          ELSE /\ node.table.id # prev.table.id
               /\ DirectReferences(node.columns, node.table)
               /\ DirectReferences(node.hidden_ordering_columns, node.table)
               /\ node.predicates = <<>>
               /\ column_ids(node) = column_ids(Unflattened)
               /\ node.ordering = Unflattened.ordering
               /\ hidden_column_ids(node)
                     = SelectSeq(hidden_column_ids(Unflattened),
                                 LAMBDA c : c \in OrderingColIds(node.ordering))
               /\ \E tb \in TieBreaks(prev) :
                     [r \in DOMAIN node.table.rows |-> node.table.rows[r][WindowOutputId]]
                        = WindowValues(tb)

\* A node with a pending predicate that rejects a row was given a window
\* column and reprojected.
C23_Witness ==
    /\ WindowProjected
    /\ ~last.arg.skip_reproject_unsafe
    /\ Len(prev.predicates) > 0
    /\ Len(node.table.rows) < Len(prev.table.rows)
    /\ Len(node.table.rows) > 0

\* Window specifications resolved against the node: with and without
\* grouping keys, explicit ordering keys and frame bounds.
ResolutionSpecs ==
    {WindowSpec(keys, ordering, preceding, following, 0) :
        keys \in {<<>>, <<"a">>},
        ordering \in {<<>>, <<OrderingExpression(Var("a"), FALSE, TRUE)>>},
        preceding \in {Null, 1}, following \in {Null, 0}}

\* The specification refers to columns the node has.
Resolvable(n, ws) ==
    /\ \A k \in DOMAIN ws.grouping_keys : HasIbisColumn(n, ws.grouping_keys[k])
    /\ \A k \in DOMAIN ws.ordering :
          UnboundVariables(ws.ordering[k].scalar_expression) \subseteq DOMAIN ibis_bindings(n)

\* Rows i and j of node n have equal values in every expression of keys.
SameValues(n, keys, i, j) ==
    \A k \in DOMAIN keys :
       Eval(keys[k], n.table.rows, i, IdentityRanks(n))
          = Eval(keys[k], n.table.rows, j, IdentityRanks(n))

\* Two rows of one partition of the window are equal in every order key.
TiedInWindow(n, win) ==
    \E i, j \in DOMAIN n.table.rows :
       /\ i # j
       /\ SameValues(n, win.group_by, i, j)
       /\ SameValues(n, [k \in DOMAIN win.order_by |-> win.order_by[k].e], i, j)

\* C24: a window with explicit ordering keys is ordered by those keys,
\* followed by the ordering keys of the node unless the operator tolerates
\* ties; without explicit keys but with a preceding or following bound it
\* is ordered by the ordering of the node; with neither it is unordered.
\* When the ordering of the node is part of the window order, no two rows of
\* a partition are tied.
C24_WindowResolution ==
    IsOrdered(node) =>
       \A ws \in ResolutionSpecs : \A allow_ties \in BOOLEAN :
          Resolvable(node, ws) =>
             LET Holds(win, explicit) ==
                     /\ win.order_by =
                           IF Len(ws.ordering) > 0
                           THEN explicit \o (IF allow_ties THEN <<>> ELSE ibis_order(node))
                           ELSE IF ws.preceding # Null \/ ws.following # Null
                           THEN ibis_order(node)
                           ELSE <<>>
                     /\ (Len(ws.ordering) > 0 /\ ~allow_ties)
                           \/ (Len(ws.ordering) = 0
                                 /\ (ws.preceding # Null \/ ws.following # Null))
                           => ~TiedInWindow(node, win)
             IN Holds(ibis_window_from_spec(node, ws, allow_ties),
                      convert_ordering_to_table_values(ibis_bindings(node), ws.ordering))

\* An exploded node holds two rows of one partition that the explicit key
\* leaves tied and the ordering of the node tells apart.
C24_Witness ==
    /\ IsOrdered(node)
    /\ last.op = "explode" /\ last.ok
    /\ \E ws \in ResolutionSpecs :
          /\ Resolvable(node, ws)
          /\ Len(ws.ordering) > 0
          /\ TiedInWindow(node, ibis_window_from_spec(node, ws, TRUE))
          /\ ~TiedInWindow(node, ibis_window_from_spec(node, ws, FALSE))

\* The rows of prev that pass its predicates and come before row i in the
\* order of prev.
RetainedBefore(i) == {j \in Emitted(prev) : RowBefore(prev, j, i)}

\* C25: for a node with pending predicates that retain k rows,
\* _project_offsets returns a node without predicates whose table holds
\* exactly those k rows, each with the values of its visible columns and
\* with the offset that is the number of retained rows before it in the
\* order of the node (0..k-1, no gap for the rows filtered out); the result
\* is ordered ascending by the offset column alone, hidden under the
\* reserved ordering id.
C25_OffsetsSkipFiltered ==
    (ProjectedOffsets /\ Len(prev.predicates) > 0) =>
       LET passing == SeqOfSet(Emitted(prev)) IN
       /\ node.predicates = <<>>
       /\ DOMAIN node.table.rows = DOMAIN passing
       /\ \A r \in DOMAIN passing :
             /\ node.table.rows[r][ORDER_ID_COLUMN]
                   = Cardinality(RetainedBefore(passing[r]))
             /\ \A c \in Range(column_ids(node)) :
                   NodeValue(node, c, r) = NodeValue(prev, c, passing[r])
       /\ {node.table.rows[r][ORDER_ID_COLUMN] : r \in DOMAIN node.table.rows}
             = 0..(Cardinality(Emitted(prev)) - 1)
       /\ column_ids(node) = column_ids(prev)
       /\ hidden_column_ids(node) = <<ORDER_ID_COLUMN>>
       /\ get_any_column(node, ORDER_ID_COLUMN) = Col(ORDER_ID_COLUMN)
       /\ node.ordering =
             ExpressionOrdering(<<ascending_over(ORDER_ID_COLUMN)>>, {ORDER_ID_COLUMN},
                                IntegerEncoding(TRUE, TRUE))

\* A retained row that had a filtered-out row before it got the offset 0.
C25_Witness ==
    /\ ProjectedOffsets /\ Len(prev.predicates) > 0
    /\ \E i \in Emitted(prev) :
          /\ \E j \in DOMAIN prev.table.rows \ Emitted(prev) : RowBefore(prev, j, i)
          /\ RetainedBefore(i) = {}
    /\ \E r \in DOMAIN node.table.rows : node.table.rows[r][ORDER_ID_COLUMN] = 0

\* C26: after _bake_ordering every ordering key that is not a constant is a
\* bare reference to a named column of columns or hidden_columns;
\* _bake_ordering returns such a node for every node it is applied to.
C26_BakedOrdering ==
    last.op = "_bake_ordering" =>
       /\ last.ok
       /\ \A k \in DOMAIN all_ordering_columns(node.ordering) :
             LET key == all_ordering_columns(node.ordering)[k].scalar_expression
             IN \/ IsConst(key)
                \/ IsUnboundVariable(key) /\ key.a \in AllIds(node)

\* to_sql(sorted=True) of an ordered node has returned its text.
SortedSql == last.op = "to_sql" /\ last.arg.sorted /\ last.ok /\ IsOrdered(node)

\* C27: in the text of to_sql(sorted=True) every column of the outer SELECT
\* list and every column of the outer ORDER BY clause is a column the inner
\* query outputs, after the id overrides.
C27_SortedSqlScoped ==
    SortedSql =>
       /\ Range(out.selection) \subseteq Range(out.relation.columns)
       /\ \A p \in DOMAIN out.order_by :
             out.order_by[p].id \in Range(out.relation.columns)

\* The last transformation was a promote_offsets that returned a node.
PromotedOffsets == last.op = "promote_offsets" /\ last.ok /\ IsOrdered(prev)

\* The rows the node emits that come before row r in the order of the node.
EmittedBefore(n, r) == {j \in Emitted(n) : RowBefore(n, j, r)}

\* C28: no node has an ordering marked sequential without a single ascending
\* key, so promote_offsets never recurses a second time; the node it returns
\* has col_id as its first visible column, holding the offset of each row,
\* followed by the columns of the input in order.
C28_PromoteOffsets ==
    /\ (IsOrdered(node) /\ is_sequential(node.ordering)) => HasTotalOrderCol(node.ordering)
    /\ last.op = "promote_offsets" => last.err # "RecursionError"
    /\ PromotedOffsets =>
          /\ node.columns[1].name = last.arg
          /\ Names(Tail(node.columns)) = Names(prev.columns)
          /\ Cardinality(Emitted(node)) = Cardinality(Emitted(prev))
          /\ \A r \in Emitted(node) :
                Eval(node.columns[1].e, node.table.rows, r, IdentityRanks(node))
                   = Cardinality(EmittedBefore(node, r))

\* The last transformation was an order_by that returned a node.
OrderedBy == last.op = "order_by" /\ last.ok /\ IsOrdered(prev)

\* Rows i and j have equal values under the keys order_by was given.
TiedUnderBy(i, j) ==
    \A k \in DOMAIN last.arg : KeyValues(node, i)[k] = KeyValues(node, j)[k]

=============================================================================
